---- MODULE Spec2Model ----
(***************************************************************************)
(* Real-time risk-scoring engine of the OTT compliance events pipeline:    *)
(* the orchestrator evaluate_compliance (src/app/compliance_rules.py) and  *)
(* the components it composes (adaptive thresholds, user segmentation,     *)
(* regulation checks, network fraud detection).                            *)
(*                                                                         *)
(* Numbers: every score and threshold is an integer number of thousandths  *)
(* (8.0 is 8000); every percentage adjustment is an integer number of      *)
(* hundredths (-0.15 is -15).  The string "None" is Python's None.         *)
(***************************************************************************)
EXTENDS Integers, Sequences, FiniteSets, TLC

VARIABLES
    \* ---- AdaptiveThresholds (adaptive_thresholds.py) ----
    time_of_day_stats,   \* hour    -> [scores, violations]
    region_stats,        \* region  -> [scores, violations]
    user_segment_stats,  \* segment -> [scores, violations]
    \* ---- UserSegmentationEngine (user_segments.py) ----
    user_profiles,       \* user_id -> stored profile
    \* ---- NetworkFraudDetector (network_analysis.py) ----
    graph,               \* [nodes, edges] of the nx.Graph
    device_connections,  \* device_id -> set of users
    ip_connections,      \* ip        -> set of users
    payment_connections, \* payment   -> set of users
    fraud_rings,         \* list of user sets of the last detect_fraud_rings
    \* ---- GeoIPValidator (geoip_validator.py) ----
    ip_cache,            \* ip address -> cached location data
    \* ---- EnhancedAnomalyDetector (ml_models.py) ----
    feature_history,     \* list of feature vectors
    isolation_forest,    \* None, or the fitted forest: features -> verdict
    forest_fit,          \* the forest object: none, new (not fitted), or
                         \* fitted, and the rows it was fitted on
    \* ---- AlertingSystem tasks handed over by the orchestrator ----
    alert_tasks,
    \* ---- one evaluate_compliance call in flight ----
    pc,                  \* section of evaluate_compliance about to run
    event, db,           \* the arguments
    utc_hour,            \* datetime.utcnow().hour during the call
    score, flags, detailed_findings,
    user_segment, dynamic_threshold, ml_result, risk_level, result,
    stage_log,           \* per section: did it raise, what did it add
    escaped,             \* an exception left evaluate_compliance
    first_result,        \* what earlier calls with the same input returned
    \* ---- CircuitBreaker (api_gateway.py) and the clock it reads ----
    breaker,             \* [state, failures, successes, last_failure_time]
    now,                 \* datetime.utcnow(), in seconds
    \* ---- the local event queue (queue.py) ----
    _event_queue,        \* the deque, oldest event first
    _stats,              \* enqueued, processed, errors, queue_size
    queue_log,           \* every event enqueued and every event returned
    \* ---- calls in flight on background and worker threads ----
    threads,             \* thread -> [pc, ...] of the call it is inside
    \* ---- last call of a component made directly by a client ----
    call

engine_vars  == <<time_of_day_stats, region_stats, user_segment_stats>>
network_vars == <<graph, device_connections, ip_connections,
                  payment_connections, fraud_rings>>
detector_vars == <<ip_cache, feature_history, isolation_forest, forest_fit>>
client_vars  == <<breaker, now, _event_queue, _stats, queue_log, threads>>
eval_vars    == <<pc, event, db, utc_hour, score, flags, detailed_findings,
                  user_segment, dynamic_threshold, ml_result, risk_level,
                  result, stage_log, escaped>>
vars == <<time_of_day_stats, region_stats, user_segment_stats, user_profiles,
          graph, device_connections, ip_connections, payment_connections,
          fraud_rings, alert_tasks, pc, event, db, utc_hour, score, flags,
          detailed_findings, user_segment, dynamic_threshold, ml_result,
          risk_level, result, stage_log, escaped, call, ip_cache,
          feature_history, isolation_forest, first_result, breaker, now,
          _event_queue, _stats, queue_log, forest_fit, threads>>

None == "None"
\* an empty Python dict
EmptyDict == <<>>

Max(a, b) == IF a >= b THEN a ELSE b
Min(a, b) == IF a <= b THEN a ELSE b

\* dict.get(key, default) on a dict modelled as a function
DictGet(d, k, default) == IF k \in DOMAIN d THEN d[k] ELSE default

\* Python binds a keyword call iff every keyword names a parameter and every
\* parameter without a default is supplied; otherwise the call raises TypeError
CallBinds(keywords, params, required) ==
    /\ keywords \subseteq params
    /\ required \subseteq keywords

(***************************************************************************)
(* AdaptiveThresholds                                                      *)
(***************************************************************************)
EmptyStats == [scores |-> <<>>, violations |-> <<>>]

\* defaultdict(lambda: {"scores": [], "violations": []})[key][field].append(x)
StatsAppend(stats, key, x, is_violation) ==
    LET old == IF key \in DOMAIN stats THEN stats[key] ELSE EmptyStats
        new == [scores     |-> Append(old.scores, x),
                violations |-> IF is_violation THEN Append(old.violations, x)
                                               ELSE old.violations]
    IN [k \in DOMAIN stats \cup {key} |-> IF k = key THEN new ELSE stats[k]]

base_threshold == 8000

hour_adjustments ==
    <<15, 20, 25, 30, 25, 20, 10, 5, 0, -10, -15, -15,
      -15, -10, -10, -10, -5, 0, 5, 10, 10, 10, 10, 15>>

\* hour_adjustments.get(hour, 0.0); the table is keyed 0..23
_get_time_adjustment(hour) ==
    IF hour \in 0..23 THEN hour_adjustments[hour + 1] ELSE 0

\* the rates compared with >= in place of >
_get_region_adjustment_at_least(rstats, region) ==
    LET stats == IF region \in DOMAIN rstats THEN rstats[region] ELSE EmptyStats
    IN IF Len(stats.violations) = 0 THEN 0
       ELSE IF 10 * Len(stats.violations) >= 2 * Max(Len(stats.scores), 1) THEN -20
       ELSE IF 10 * Len(stats.violations) >= 1 * Max(Len(stats.scores), 1) THEN -10
       ELSE 0

_get_region_adjustment(rstats, region) ==
    LET stats == IF region \in DOMAIN rstats THEN rstats[region] ELSE EmptyStats
    IN IF Len(stats.violations) = 0 THEN 0
       \* violation_rate = len(violations) / max(len(scores), 1)
       ELSE IF 10 * Len(stats.violations) > 2 * Max(Len(stats.scores), 1) THEN -20
       ELSE IF 10 * Len(stats.violations) > 1 * Max(Len(stats.scores), 1) THEN -10
       ELSE 0

segment_adjustments ==
    [power_user |-> -20, normal_user |-> 0, new_user |-> 20,
     inactive_user |-> 15, suspicious |-> 30]

_get_segment_adjustment(seg) ==
    DictGet(segment_adjustments, seg, 0)

\* base_threshold * (1.0 + time + region + segment), before the clamp
final_threshold(rstats, seg, hour, region) ==
    (base_threshold * (100 + _get_time_adjustment(hour)
                           + _get_region_adjustment(rstats, region)
                           + _get_segment_adjustment(seg))) \div 100

\* the clamp left out
ClampThresholdOff(x) == x

ClampThreshold(x) == Max(4000, Min(12000, x))

get_dynamic_risk_threshold(rstats, seg, hour, region) ==
    ClampThreshold(final_threshold(rstats, seg, hour, region))

get_dynamic_risk_threshold_params == {"user_segment", "hour", "region"}
record_event_params ==
    {"risk_score", "is_violation", "user_segment", "hour", "region"}

(***************************************************************************)
(* UserSegmentationEngine                                                  *)
(***************************************************************************)
UserSegment ==
    {"power_user", "normal_user", "new_user", "inactive_user",
     "suspicious_user", "dormant_user"}

\* the suspicious test made before the new-user test
classify_user_suspicious_first(user_id, event_count_30d, event_count_7d, violation_count_30d, days_since_signup, last_activity_days_ago, avg_risk_score) ==
    IF event_count_30d > 500 /\ violation_count_30d = 0
                             /\ days_since_signup > 180
    THEN "power_user"
    ELSE IF violation_count_30d > 5
            \/ 4 * event_count_7d > 7 * event_count_30d
    THEN "suspicious_user"
    ELSE IF days_since_signup < 30 /\ event_count_30d < 50
    THEN "new_user"
    ELSE IF last_activity_days_ago > 90 /\ event_count_30d = 0
    THEN "dormant_user"
    ELSE IF last_activity_days_ago > 30 /\ 10 < event_count_30d
                                        /\ event_count_30d < 100
    THEN "inactive_user"
    ELSE "normal_user"

\* event_count_7d > event_count_30d / 4 * 7 is computed in floats; for
\* integer counters it is 4 * event_count_7d > 7 * event_count_30d
classify_user(user_id, event_count_30d, event_count_7d, violation_count_30d, days_since_signup, last_activity_days_ago, avg_risk_score) ==
    IF event_count_30d > 500 /\ violation_count_30d = 0
                             /\ days_since_signup > 180
    THEN "power_user"
    ELSE IF days_since_signup < 30 /\ event_count_30d < 50
    THEN "new_user"
    ELSE IF violation_count_30d > 5
            \/ 4 * event_count_7d > 7 * event_count_30d
    THEN "suspicious_user"
    ELSE IF last_activity_days_ago > 90 /\ event_count_30d = 0
    THEN "dormant_user"
    ELSE IF last_activity_days_ago > 30 /\ 10 < event_count_30d
                                        /\ event_count_30d < 100
    THEN "inactive_user"
    ELSE "normal_user"

\* the profile update_user_profile stores (last_updated is a wall-clock
\* string that nothing reads; it is left out)
StoredProfile(segment, p) ==
    [segment                |-> segment,
     event_count_30d        |-> p.event_count_30d,
     event_count_7d         |-> p.event_count_7d,
     violation_count_30d    |-> p.violation_count_30d,
     days_since_signup      |-> p.days_since_signup,
     last_activity_days_ago |-> p.last_activity_days_ago,
     avg_risk_score         |-> p.avg_risk_score]

ClassifyProfile(p) ==
    classify_user(p.user_id, p.event_count_30d, p.event_count_7d,
                  p.violation_count_30d, p.days_since_signup,
                  p.last_activity_days_ago, p.avg_risk_score)

\* user_profiles after update_user_profile(**p)
ProfilesAfterUpdate(profiles, p) ==
    [u \in DOMAIN profiles \cup {p.user_id} |->
        IF u = p.user_id THEN StoredProfile(ClassifyProfile(p), p)
                         ELSE profiles[u]]

\* get_user_segment: stored segment, NORMAL_USER when not profiled yet
get_user_segment(profiles, user_id) ==
    IF user_id \in DOMAIN profiles THEN profiles[user_id].segment
                                   ELSE "normal_user"

(***************************************************************************)
(* RegulationFramework and ComplianceChecker                               *)
(***************************************************************************)
REGION_REGULATIONS ==
    [EU |-> <<"GDPR">>, US |-> <<"CCPA">>, CA |-> <<"CCPA">>,
     CN |-> <<"PIPL">>, TH |-> <<"PDPA">>, BR |-> <<"LGPD">>,
     ZA |-> <<"POPIA">>, AU |-> <<"APRA">>, CA_FEDERAL |-> <<"PIPEDA">>,
     TR |-> <<"KVKK">>, SG |-> <<"PDPL">>]

Req(consent, del, acc, port, breach, dpia, dpo, years) ==
    [consent_required |-> consent, data_minimization |-> TRUE,
     right_to_deletion |-> del, right_to_access |-> acc,
     data_portability |-> port, breach_notification_days |-> breach,
     dpia_required |-> dpia, dpo_required |-> dpo,
     max_retention_years |-> years]

REGULATION_REQUIREMENTS ==
    [GDPR   |-> Req(TRUE, TRUE, TRUE, TRUE,  72, TRUE,  TRUE,  7),
     CCPA   |-> Req(TRUE, TRUE, TRUE, TRUE,  30, FALSE, FALSE, 1),
     PIPL   |-> Req(TRUE, TRUE, TRUE, FALSE, 30, TRUE,  TRUE,  3),
     PDPA   |-> Req(TRUE, TRUE, TRUE, FALSE, 30, FALSE, FALSE, 5),
     LGPD   |-> Req(TRUE, TRUE, TRUE, TRUE,  30, TRUE,  TRUE,  5),
     POPIA  |-> Req(TRUE, TRUE, TRUE, FALSE, 30, FALSE, TRUE,  5),
     APRA   |-> Req(TRUE, TRUE, TRUE, FALSE, 30, FALSE, FALSE, 7),
     PIPEDA |-> Req(TRUE, TRUE, TRUE, FALSE, 30, FALSE, FALSE, 7),
     KVKK   |-> Req(TRUE, TRUE, TRUE, TRUE,  30, FALSE, TRUE,  5),
     PDPL   |-> Req(TRUE, TRUE, TRUE, TRUE,  30, FALSE, TRUE,  5)]

\* GDPR taken as the default for an unknown region
get_regulations_for_region_default(region_code) ==
    DictGet(REGION_REGULATIONS, region_code, <<"GDPR">>)

get_regulations_for_region(region_code) ==
    DictGet(REGION_REGULATIONS, region_code, <<>>)

get_regulation_requirements(regulation) ==
    REGULATION_REQUIREMENTS[regulation]

\* details is a dict: a function from the keys it holds to their values
check_violation(action, regulation, details) ==
    LET requirement == get_regulation_requirements(regulation)
        found ==
            IF action = "data_access" THEN
                IF requirement.right_to_access
                THEN <<DictGet(details, "access_time_days", 0) > 30,
                       "Access request not responded within 30 days">>
                ELSE <<FALSE, "">>
            ELSE IF action = "data_deletion" THEN
                IF requirement.right_to_deletion
                THEN <<DictGet(details, "deletion_time_days", 0) > 30,
                       "Deletion request not completed within 30 days">>
                ELSE <<FALSE, "">>
            ELSE IF action = "consent" THEN
                IF requirement.consent_required
                THEN <<~DictGet(details, "has_explicit_consent", FALSE),
                       "Explicit consent required but not obtained">>
                ELSE <<FALSE, "">>
            ELSE IF action = "breach_notification" THEN
                <<DictGet(details, "notification_time_days", 0)
                      > requirement.breach_notification_days,
                  "Breach notification exceeded day limit">>
            ELSE IF action = "data_retention" THEN
                <<DictGet(details, "retention_years", 0)
                      > requirement.max_retention_years,
                  "Data retention exceeds year limit">>
            ELSE IF action = "dpia" THEN
                IF requirement.dpia_required
                THEN <<~DictGet(details, "has_dpia", FALSE),
                       "Data Protection Impact Assessment required but not completed">>
                ELSE <<FALSE, "">>
            ELSE <<FALSE, "">>
    IN [violation |-> found[1], reason |-> found[2],
        regulation |-> regulation, action |-> action]

event_action_mapping ==
    [user_data_access |-> "data_access",
     user_data_deletion |-> "data_deletion",
     user_consent_change |-> "consent",
     breach_detected |-> "breach_notification",
     data_export |-> "data_portability"]

\* mapping.get(event_type): None for an event type without an action
_map_event_to_action(event_type) ==
    DictGet(event_action_mapping, event_type, None)

\* the loop without its "if result["violation"]" test
RECURSIVE ComplianceLoopNoFilter(_, _, _, _, _)
ComplianceLoopNoFilter(regulations, i, event_type, event_details, acc) ==
    IF i > Len(regulations) THEN acc
    ELSE LET action == _map_event_to_action(event_type)
             res    == check_violation(action, regulations[i], event_details)
             hit    == action # None
         IN ComplianceLoopNoFilter(regulations, i + 1, event_type,
                event_details,
                [violations |-> IF hit THEN Append(acc.violations, res)
                                       ELSE acc.violations,
                 risk_score |-> IF hit THEN acc.risk_score + 500
                                       ELSE acc.risk_score])

\* the loop of evaluate_event_compliance over regulations[i..]: the
\* violations it appends and the risk score it accumulates
RECURSIVE ComplianceLoop(_, _, _, _, _)
ComplianceLoop(regulations, i, event_type, event_details, acc) ==
    IF i > Len(regulations) THEN acc
    ELSE LET action == _map_event_to_action(event_type)
             res    == check_violation(action, regulations[i], event_details)
             hit    == action # None /\ res.violation
         IN ComplianceLoop(regulations, i + 1, event_type, event_details,
                [violations |-> IF hit THEN Append(acc.violations, res)
                                       ELSE acc.violations,
                 risk_score |-> IF hit THEN acc.risk_score + 500
                                       ELSE acc.risk_score])

evaluate_event_compliance(user_id, event_type, region, event_details) ==
    LET regulations == get_regulations_for_region(region)
        done == ComplianceLoop(regulations, 1, event_type, event_details,
                               [violations |-> <<>>, risk_score |-> 0])
    IN [compliant               |-> Len(done.violations) = 0,
        violations              |-> done.violations,
        applicable_regulations  |-> regulations,
        compliance_risk_score   |-> Min(1000, done.risk_score)]

(***************************************************************************)
(* NetworkFraudDetector                                                    *)
(* A node is <<kind, id>> with kind "user", "device", "ip" or "payment"    *)
(* (the code names connector nodes "device:<id>", "ip:<id>",               *)
(* "payment:<id>"); an edge is the set of its two end nodes.               *)
(***************************************************************************)
EmptyGraph == [nodes |-> {}, edges |-> {}]

UserNode(u) == <<"user", u>>

\* the user's edge to a connector replaces the connector's other edges
ConnectReplacing(g, user_id, kind, id) ==
    IF id = None THEN g
    ELSE [nodes |-> g.nodes \cup {UserNode(user_id), <<kind, id>>},
          edges |-> {e \in g.edges : <<kind, id>> \notin e}
                        \cup {{UserNode(user_id), <<kind, id>>}}]

\* one "if <id>:" block of add_user_event
Connect(g, user_id, kind, id) ==
    IF id = None THEN g
    ELSE [nodes |-> g.nodes \cup {UserNode(user_id), <<kind, id>>},
          edges |-> g.edges \cup {{UserNode(user_id), <<kind, id>>}}]

\* self.<kind>_connections[id].add(user_id) on a defaultdict(set)
ConnectionsAdd(conns, id, user_id) ==
    IF id = None THEN conns
    ELSE [k \in DOMAIN conns \cup {id} |->
            IF k = id THEN DictGet(conns, id, {}) \cup {user_id}
                      ELSE conns[k]]

GraphAfterAdd(g, user_id, device_id, ip_address, payment_method) ==
    LET g0 == [nodes |-> g.nodes \cup {UserNode(user_id)}, edges |-> g.edges]
        g1 == Connect(g0, user_id, "device", device_id)
        g2 == Connect(g1, user_id, "ip", ip_address)
    IN Connect(g2, user_id, "payment", payment_method)

RECURSIVE SetToSeq(_)
SetToSeq(S) ==
    IF S = {} THEN <<>>
    ELSE LET x == CHOOSE y \in S : TRUE IN <<x>> \o SetToSeq(S \ {x})

\* rings only above the minimum size
RingsOfLarger(conns, ring_type, min_ring_size) ==
    LET ids == {id \in DOMAIN conns : Cardinality(conns[id]) > min_ring_size}
        ring(id) ==
            [ring_type  |-> ring_type,
             connection |-> id,
             users      |-> conns[id],
             size       |-> Cardinality(conns[id]),
             risk_score |-> Min(1000,
                 ((Cardinality(conns[id]) - min_ring_size) * 1000) \div 10)]
        RECURSIVE build(_)
        build(q) == IF q = <<>> THEN <<>>
                    ELSE <<ring(Head(q))>> \o build(Tail(q))
    IN build(SetToSeq(ids))

\* the rings one sharing map contributes to detect_fraud_rings
RingsOf(conns, ring_type, min_ring_size) ==
    LET ids == {id \in DOMAIN conns : Cardinality(conns[id]) >= min_ring_size}
        ring(id) ==
            [ring_type  |-> ring_type,
             connection |-> id,
             users      |-> conns[id],
             size       |-> Cardinality(conns[id]),
             risk_score |-> Min(1000,
                 ((Cardinality(conns[id]) - min_ring_size) * 1000) \div 10)]
        RECURSIVE build(_)
        build(q) == IF q = <<>> THEN <<>>
                    ELSE <<ring(Head(q))>> \o build(Tail(q))
    IN build(SetToSeq(ids))

detect_fraud_rings(devs, ips, pays, min_ring_size) ==
    RingsOf(devs, "device_sharing", min_ring_size)
        \o RingsOf(ips, "ip_sharing", min_ring_size)
        \o RingsOf(pays, "payment_sharing", min_ring_size)

\* self.fraud_rings = [ring["users"] for ring in fraud_rings]
RingUsers(rings) == [i \in 1..Len(rings) |-> rings[i].users]

Neighbors(g, n) == {m \in g.nodes : {n, m} \in g.edges /\ m # n}

Degree(g, n) == Cardinality(Neighbors(g, n))

\* nx.degree_centrality is degree / (n - 1), and 1 for a graph of a single
\* node; "centrality > 0.1" without a division
HighCentrality(g, n) ==
    IF Cardinality(g.nodes) <= 1 THEN TRUE
    ELSE 10 * Degree(g, n) > Cardinality(g.nodes) - 1

\* thousandths of centrality * 0.3, to the nearest thousandth
CentralityMilli(g, n) ==
    IF Cardinality(g.nodes) <= 1 THEN 300
    ELSE LET d == Cardinality(g.nodes) - 1
         IN (Degree(g, n) * 300 + d \div 2) \div d

\* thousandths of nx.clustering: closed pairs of neighbours over all pairs
ClusteringMilli(g, n) ==
    LET nb     == Neighbors(g, n)
        pairs  == {pr \in SUBSET nb : Cardinality(pr) = 2}
        closed == {pr \in pairs : pr \in g.edges}
    IN IF pairs = {} THEN 0
       ELSE (Cardinality(closed) * 1000) \div Cardinality(pairs)

\* nodes within max_hops of n, n excluded
RECURSIVE Within(_, _, _)
Within(g, frontier, hops) ==
    IF hops = 0 THEN frontier
    ELSE Within(g, frontier \cup UNION {Neighbors(g, m) : m \in frontier},
                hops - 1)

\* list(set(connected_suspicious))[:10]
max_connected == 10

\* the first n of a set listed in an order the caller does not control
FirstOf(S, n) ==
    IF Cardinality(S) <= n THEN S
    ELSE CHOOSE T \in SUBSET S : Cardinality(T) = n

get_user_network_risk(g, rings, user_id, max_hops) ==
    IF UserNode(user_id) \notin g.nodes
    THEN [risk_score |-> 0, risk_factors |-> <<>>,
          connected_suspicious_users |-> {}]
    ELSE
    LET me         == UserNode(user_id)
        neighbors  == Within(g, {me}, max_hops) \ {me}
        in_ring    == \E i \in 1..Len(rings) : user_id \in rings[i]
        central    == HighCentrality(g, me)
        clustered  == ClusteringMilli(g, me) > 500
        connected  == {m[2] : m \in UNION {
                          {x \in Neighbors(g, c) : x[1] = "user"} :
                          c \in {c \in neighbors : c[1] \in {"device", "ip"}}}}
        raw        == (IF in_ring THEN 800 ELSE 0)
                      + (IF central THEN CentralityMilli(g, me) ELSE 0)
                      + (IF clustered THEN 200 ELSE 0)
    IN [risk_score   |-> Min(1000, raw),
        risk_factors |->
            (IF in_ring THEN <<"member_of_fraud_ring">> ELSE <<>>)
            \o (IF central THEN <<"high_network_centrality">> ELSE <<>>)
            \o (IF clustered THEN <<"high_network_clustering">> ELSE <<>>),
        connected_suspicious_users |-> FirstOf(connected, max_connected)]

(***************************************************************************)
(* GeoIPValidator.validate_ip_region_consistency, given the location the   *)
(* cache or the lookup produced ({} after a failed lookup)                 *)
(***************************************************************************)
\* GeoIPValidator.max_cache_size is 10000 (line 30); the model's cache is
\* small so that evictions happen
max_cache_size == 2

vpn_hub_countries == {"NL", "RO", "HK", "PA", "SG"}
vpn_hub_cities ==
    {"amsterdam", "bucharest", "hong kong", "panama city", "singapore"}

\* str.upper() of a region code
Upper(str) ==
    CASE str = "eu" -> "EU"
      [] str = "us" -> "US"
      [] str = "zz" -> "ZZ"
      [] OTHER -> str

\* lines 196-224
_detect_vpn_proxy(location_data) ==
    \/ DictGet(location_data, "city", "") \in vpn_hub_cities
    \/ DictGet(location_data, "country_code", "") \in vpn_hub_countries

\* lines 49-99, given the location data the cache or the lookup produced.
\* claimed_region.upper() is evaluated only for a non-empty country and
\* raises AttributeError for a region that is None; the except branch
\* answers with the flag geoip_lookup_failed
validate_ip_region_consistency(location_data, claimed_region) ==
    LET actual_country == DictGet(location_data, "country_code", "")
        raises     == actual_country # "" /\ claimed_region = None
        mismatch   == /\ actual_country # ""
                      /\ actual_country # Upper(claimed_region)
        is_vpn     == _detect_vpn_proxy(location_data)
        datacenter == DictGet(location_data, "is_datacenter", FALSE)
    IN IF raises
       THEN [flags |-> <<"geoip_lookup_failed">>, score_adjustment |-> 0,
             location |-> None, vpn_info |-> None]
       ELSE
       [flags |-> (IF mismatch THEN <<"ip_region_mismatch">> ELSE <<>>)
                  \o (IF is_vpn THEN <<"vpn_detected">> ELSE <<>>)
                  \o (IF datacenter THEN <<"datacenter_ip">> ELSE <<>>),
        score_adjustment |-> (IF mismatch THEN 3000 ELSE 0)
                             + (IF is_vpn THEN 1000 ELSE 0)
                             + (IF datacenter THEN 2000 ELSE 0),
        location |-> actual_country,
        vpn_info |-> IF is_vpn THEN "is_vpn" ELSE "not_vpn",
        is_datacenter |-> datacenter]

\* ip_cache is a dict in insertion order: a sequence of [ip, data] entries
CacheHas(cache, ip) == \E i \in 1..Len(cache) : cache[i].ip = ip

CacheGet(cache, ip) ==
    cache[CHOOSE i \in 1..Len(cache) : cache[i].ip = ip].data

\* lines 226-233: the oldest entry goes when the cache is full
\* the newest entry evicted in place of the oldest
_cache_location_newest(cache, ip_address, location_data) ==
    LET kept == IF Len(cache) >= max_cache_size
                THEN SubSeq(cache, 1, Len(cache) - 1) ELSE cache
    IN Append(kept, [ip |-> ip_address, data |-> location_data])

_cache_location(cache, ip_address, location_data) ==
    LET kept == IF Len(cache) >= max_cache_size THEN Tail(cache) ELSE cache
    IN IF CacheHas(kept, ip_address)
       THEN [i \in 1..Len(kept) |->
                IF kept[i].ip = ip_address
                THEN [ip |-> ip_address, data |-> location_data]
                ELSE kept[i]]
       ELSE Append(kept, [ip |-> ip_address, data |-> location_data])

\* the lookup repeated on every call
LocationForNoCache(cache, ip_address, looked_up) ==
    [data |-> looked_up,
     cache |-> _cache_location(cache, ip_address, looked_up),
     consulted |-> TRUE]

\* lines 41-47: the location data validate_ip_region_consistency works on and
\* the cache it leaves, when a lookup would answer looked_up
LocationFor(cache, ip_address, looked_up) ==
    IF CacheHas(cache, ip_address)
    THEN [data |-> CacheGet(cache, ip_address), cache |-> cache,
          consulted |-> FALSE]
    ELSE [data |-> looked_up,
          cache |-> _cache_location(cache, ip_address, looked_up),
          consulted |-> TRUE]

detect_impossible_travel_params ==
    {"user_id", "current_ip", "last_location", "current_timestamp"}

(***************************************************************************)
(* EnhancedAnomalyDetector.ensemble_anomaly_detection, given the verdicts  *)
(* (is_anomaly, score) of the two scikit-learn detectors                   *)
(***************************************************************************)
\* both detectors must agree
ensemble_anomaly_detection_unanimous(if_anomaly, if_score, lof_anomaly, lof_score) ==
    LET anomaly_votes == (IF if_anomaly THEN 1 ELSE 0)
                         + (IF lof_anomaly THEN 1 ELSE 0)
    IN [is_anomaly      |-> anomaly_votes >= 2,
        ensemble_score  |-> (if_score + lof_score) \div 2,
        flags           |-> (IF if_anomaly THEN <<"isolation_forest_anomaly">>
                                           ELSE <<>>)
                            \o (IF lof_anomaly THEN <<"lof_anomaly">> ELSE <<>>),
        isolation_forest |-> [is_anomaly |-> if_anomaly, score |-> if_score],
        lof              |-> [is_anomaly |-> lof_anomaly, score |-> lof_score]]

ensemble_anomaly_detection(if_anomaly, if_score, lof_anomaly, lof_score) ==
    LET anomaly_votes == (IF if_anomaly THEN 1 ELSE 0)
                         + (IF lof_anomaly THEN 1 ELSE 0)
    IN [is_anomaly      |-> anomaly_votes >= 1,
        ensemble_score  |-> (if_score + lof_score) \div 2,
        flags           |-> (IF if_anomaly THEN <<"isolation_forest_anomaly">>
                                           ELSE <<>>)
                            \o (IF lof_anomaly THEN <<"lof_anomaly">> ELSE <<>>),
        isolation_forest |-> [is_anomaly |-> if_anomaly, score |-> if_score],
        lof              |-> [is_anomaly |-> lof_anomaly, score |-> lof_score]]

\* extract_features (lines 32-62) of a dict that has an unparsable or no
\* timestamp, no subscription_plan among basic/premium/vip: hour 12,
\* weekday 3, then the length of event_type, has error_code, is_eu,
\* has_consent, the plan code and the event type code
extract_features(ev) ==
    <<12, 3, ev.event_type_len, IF ev.error_code THEN 1 ELSE 0,
      IF ev.is_eu THEN 1 ELSE 0, IF ev.has_consent THEN 1 ELSE 0, 0,
      ev.event_type_code>>

\* the dict "event_features" of evaluate_compliance (lines 198-208) seen by
\* extract_features: it has none of the keys timestamp, event_type,
\* error_code, subscription_plan
FeaturesOfEventFeatures(is_eu, has_consent) ==
    extract_features([event_type_len |-> 0, error_code |-> FALSE,
                      is_eu |-> is_eu, has_consent |-> has_consent,
                      event_type_code |-> 0])

\* what the fitted scikit-learn forest answers for one feature vector:
\* an exception, or predict (-1: anomaly) and score_samples (negative,
\* thousandths)
ForestAnswers ==
    {[error |-> TRUE, prediction |-> 1, score_samples |-> 0],
     [error |-> FALSE, prediction |-> 1, score_samples |-> -400],
     [error |-> FALSE, prediction |-> -1, score_samples |-> -600]}

\* self.isolation_forest is None
NoForest == [object |-> "none", rows |-> <<>>]

\* lines 77-85: when there is no forest, one is created and fitted on the
\* event's vector alone
LazyFit(fit, features) ==
    IF fit.object = "none" THEN [object |-> "fitted", rows |-> <<features>>]
                           ELSE fit

\* lines 73-99
detect_anomaly_isolation_forest(answer) ==
    IF answer.error THEN <<FALSE, 0>>
    ELSE <<answer.prediction = -1, -answer.score_samples>>

n_neighbors == 20
\* EnhancedAnomalyDetector.max_history is 10000 (line 28); the model's
\* history is short so that the oldest rows are dropped
max_history == 22

\* thousandths of the Euclidean distance of two feature vectors that differ
\* in 0/1 coordinates only
Distance(f, g) ==
    LET d2 == Cardinality({i \in 1..Len(f) : f[i] # g[i]})
    IN CASE d2 = 0 -> 0
         [] d2 = 1 -> 1000
         [] d2 = 2 -> 1414
         [] d2 = 3 -> 1732
         [] OTHER  -> 2000

RECURSIVE SumOver(_, _)
SumOver(S, f) ==
    IF S = {} THEN 0
    ELSE LET x == CHOOSE y \in S : TRUE IN f[x] + SumOver(S \ {x}, f)

\* LocalOutlierFactor(n_neighbors = 20) fitted on 21 rows, in thousandths.
\* Every row has the 20 other rows as neighbours, so rows with equal vectors
\* have equal factors and every sum runs over the distinct vectors (kinds),
\* weighted by how often they occur among the other rows.
\* how often vector u occurs among the rows other than one row of vector t
OtherRows(count, t, u) == IF u = t THEN count[u] - 1 ELSE count[u]

\* the k-distance of a row: its largest distance to another row
KDistance(kinds, count) ==
    [t \in kinds |->
        LET far == {Distance(t, u) : u \in {v \in kinds :
                                              OtherRows(count, t, v) > 0}}
        IN IF far = {} THEN 0 ELSE CHOOSE d \in far : \A e \in far : e <= d]

\* the sum of the reachability distances of a row to its neighbours
ReachSum(kinds, count, kdist) ==
    [t \in kinds |->
        SumOver(kinds, [u \in kinds |->
            OtherRows(count, t, u) * Max(kdist[u], Distance(t, u))])]

\* the factor of a row: the mean over its neighbours o of lrd(o) / lrd(row),
\* which is reach(row) / reach(o)
Factors(kinds, count, reach, k) ==
    [t \in kinds |->
        SumOver(kinds, [u \in kinds |->
            OtherRows(count, t, u)
            * (IF reach[u] = 0 THEN 1000
               ELSE (reach[t] * 1000) \div reach[u])]) \div k]

\* is the row of vector current below the mean score by more than two
\* standard deviations (scores are minus the factors), and its factor
LofVerdict(kinds, count, factor, n, current) ==
    LET T   == SumOver(kinds, [t \in kinds |-> count[t] * factor[t]])
        Q   == SumOver(kinds, [t \in kinds |->
                                  count[t] * factor[t] * factor[t]])
        gap == n * factor[current] - T
    IN <<gap > 0 /\ gap * gap > 4 * (n * Q - T * T), factor[current]>>

\* the factor computed on whatever rows there are, without the minimum
detect_anomaly_lof_no_minimum(history, features) ==
    LET X     == history \o <<features>>
        kinds == {X[i] : i \in 1..Len(X)}
        count == [t \in kinds |->
                     Cardinality({i \in 1..Len(X) : X[i] = t})]
    IN LofVerdict(kinds, count,
           Factors(kinds, count,
               ReachSum(kinds, count, KDistance(kinds, count)),
               Len(X) - 1),
           Len(X), features)

\* lines 110-134: nothing below 21 rows of history; otherwise the factor of
\* the current row among the last 20 rows of history and itself
detect_anomaly_lof(history, features) ==
    IF Len(history) < n_neighbors + 1 THEN <<FALSE, 0>>
    ELSE LET X     == SubSeq(history, Len(history) - n_neighbors + 1,
                             Len(history)) \o <<features>>
             kinds == {X[i] : i \in 1..Len(X)}
             count == [t \in kinds |->
                          Cardinality({i \in 1..Len(X) : X[i] = t})]
         IN LofVerdict(kinds, count,
                Factors(kinds, count,
                    ReachSum(kinds, count, KDistance(kinds, count)),
                    Len(X) - 1),
                Len(X), features)

\* the first max_history rows kept: the new row is the one dropped
_add_to_history_keep_oldest(history, features) ==
    LET h == Append(history, features)
    IN IF Len(h) > max_history THEN SubSeq(h, 1, max_history) ELSE h

\* lines 178-183
_add_to_history(history, features) ==
    LET h == Append(history, features)
    IN IF Len(h) > max_history
       THEN SubSeq(h, Len(h) - max_history + 1, Len(h))
       ELSE h

_add_to_history_params == {"features"}

\* retrain_models needs 100 rows unless forced (line 188); the scheduler's
\* job asks for more than 100 before it calls it (model_scheduler.py:114)
retrain_min_samples == 100
scheduler_min_samples == 100

\* lines 195-199: a new, unfitted forest replaces self.isolation_forest
InstalledForest == [object |-> "new", rows |-> <<>>]

\* line 200: fit(X); np.array of an empty history is not a 2-D array and
\* scikit-learn refuses it
FitRaises(X) == Len(X) = 0

\* retrain_models without the refusal below 100 rows
retrain_models_always(history, memo, fit, force) ==
    IF FitRaises(history)
    THEN [ret |-> FALSE, isolation_forest |-> EmptyDict,
          forest_fit |-> InstalledForest]
    ELSE [ret |-> TRUE, isolation_forest |-> EmptyDict,
          forest_fit |-> [object |-> "fitted", rows |-> history]]

\* EnhancedAnomalyDetector.retrain_models (lines 185-210), run without
\* interruption: the value returned, the forest and what it answers after
retrain_models(history, memo, fit, force) ==
    IF Len(history) < retrain_min_samples /\ ~force
    THEN [ret |-> FALSE, isolation_forest |-> memo, forest_fit |-> fit]
    ELSE IF FitRaises(history)
    THEN [ret |-> FALSE, isolation_forest |-> EmptyDict,
          forest_fit |-> InstalledForest]
    ELSE [ret |-> TRUE, isolation_forest |-> EmptyDict,
          forest_fit |-> [object |-> "fitted", rows |-> history]]
predict_violation_likelihood_params == {"user_history", "current_event"}
send_alert_params ==
    {"title", "severity", "event", "flags", "risk_score", "channels"}
send_alert_required == {"title", "severity", "event", "flags", "risk_score"}

(***************************************************************************)
(* evaluate_compliance(event, db)                                          *)
(***************************************************************************)
\* ---- bounds of the model: the values events and collaborators take ----
UserIds       == {None, "u1"}
DeviceIds     == {None, "d1"}
IpAddresses   == {None, "ip1"}
EventTypes    == {"bulk_export", "Error", "user_consent_change"}
Regions       == {"EU", "ZZ"}
Plans         == {"basic", "premium", "standard"}
Timestamps    == {None, "2023-01-01T00:00:00Z"}
Hours         == {3}
\* what the database holds about the user: the counters the segmentation
\* section derives from it (no events at all: "no_events")
DbProfiles ==
    {[user_id |-> "u1", event_count_30d |-> 600, event_count_7d |-> 100,
      violation_count_30d |-> 0, days_since_signup |-> 200,
      last_activity_days_ago |-> 0, avg_risk_score |-> 0],
     [user_id |-> "u1", event_count_30d |-> 100, event_count_7d |-> 80,
      violation_count_30d |-> 8, days_since_signup |-> 60,
      last_activity_days_ago |-> 0, avg_risk_score |-> 8000]}
\* events of the user in the last hour: <<number of events, of regions>>
DbWindows == {<<1, 1>>, <<11, 3>>}
\* feature vectors of evaluated events: (is_eu, has_consent)
FeatA == FeaturesOfEventFeatures(FALSE, FALSE)
FeatB == FeaturesOfEventFeatures(TRUE, TRUE)
\* n copies of one feature vector
Copies(n, f) == [i \in 1..n |-> f]
\* locations the geolocation source resolves an address to ({}: failure)
Locations ==
    {<<>>, [country_code |-> "EU", city |-> "", is_datacenter |-> FALSE],
     [country_code |-> "US", city |-> "", is_datacenter |-> TRUE]}

\* keys an event dict may lack
OptionalKeys  == {"has_consent", "subscription_plan"}

\* an event dict: the keys in absent are missing from the dict (the record
\* then carries a fixed value for them, which nothing reads)
Events ==
    {ev \in
        {[user_id |-> u, device_id |-> d, ip_address |-> i, event_type |-> t,
          region |-> r, is_eu |-> e, has_consent |-> c,
          subscription_plan |-> s, timestamp |-> ts,
          payment_method |-> None, absent |-> a] :
            u \in UserIds, d \in DeviceIds, i \in IpAddresses,
            t \in EventTypes, r \in Regions, e \in BOOLEAN, c \in BOOLEAN,
            s \in Plans, ts \in Timestamps, a \in SUBSET OptionalKeys} :
        /\ "has_consent" \in ev.absent => ev.has_consent
        /\ "subscription_plan" \in ev.absent
              => ev.subscription_plan = "standard"}

\* event.get(key, default)
EventGet(e, key, default) ==
    IF key \in e.absent THEN default ELSE e[key]

\* str.lower()
Lower(str) ==
    CASE str = "Error" -> "error"
      [] str = "ERROR" -> "error"
      [] str = "Login_Failed" -> "login_failed"
      [] OTHER -> str

\* truth value of an optional string
Truthy(x) == x # None /\ x # ""

event_type_of(e)        == Lower(IF Truthy(EventGet(e, "event_type", None))
                                 THEN e.event_type ELSE "")
region_of(e)            == EventGet(e, "region", "unknown")
user_id_of(e)           == EventGet(e, "user_id", None)
device_id_of(e)         == EventGet(e, "device_id", None)
ip_address_of(e)        == EventGet(e, "ip_address", None)
timestamp_of(e)         == EventGet(e, "timestamp", None)
is_eu_of(e)             == EventGet(e, "is_eu", FALSE)
has_consent_of(e)       == EventGet(e, "has_consent", TRUE)
\* the tier read without a default
subscription_plan_of_no_default(e) == EventGet(e, "subscription_plan", None)
subscription_plan_of(e) == EventGet(e, "subscription_plan", "basic")
payment_method_of(e)    == EventGet(e, "payment_method", None)

Stages ==
    {"geoip", "identifiers", "event_type", "consent", "segmentation",
     "threshold", "network", "ml_anomaly", "violation_prediction",
     "compliance_check", "subscription", "time_window", "record"}

NotRun == [entered |-> FALSE, raised |-> FALSE, delta |-> 0, flags |-> <<>>]

\* the section ran: whether its try block raised, what it added to the
\* score and which flags it appended
Logged(stage, raised, delta, added) ==
    [stage_log EXCEPT ![stage] =
        [entered |-> TRUE, raised |-> raised, delta |-> delta,
         flags |-> added]]

IdleEvent == [absent |-> {"event"}]

EvalIdle ==
    /\ pc = "idle" /\ event = IdleEvent /\ db = FALSE /\ utc_hour = 0
    /\ score = 0 /\ flags = <<>> /\ detailed_findings = {}
    /\ user_segment = None /\ dynamic_threshold = None /\ ml_result = None
    /\ risk_level = None /\ result = None
    /\ stage_log = [st \in Stages |-> NotRun]
    /\ escaped = FALSE

\* CircuitBreaker.__init__ (api_gateway.py lines 267-279); last_failure_time
\* is the empty sequence for None and <<t>> for a time
NewBreaker(failure_threshold, recovery_timeout, success_threshold) ==
    [failure_threshold |-> failure_threshold,
     recovery_timeout |-> recovery_timeout,
     success_threshold |-> success_threshold,
     failures |-> 0, successes |-> 0, state |-> "CLOSED",
     last_failure_time |-> <<>>]

\* queue.py lines 13-21
NewStats == [enqueued |-> 0, processed |-> 0, errors |-> 0, queue_size |-> 0]

\* the gateway's breaker and the local queue, untouched
ClientIdle ==
    /\ breaker = NewBreaker(5, 60, 2) /\ now = 0
    /\ _event_queue = <<>> /\ _stats = NewStats
    /\ queue_log = [enqueued |-> <<>>, returned |-> <<>>]
    /\ threads = <<>>

\* lines 45-59: the call starts
Receive(e, session, hour) ==
    /\ pc = "idle"
    /\ pc' = "geoip"
    /\ event' = e /\ db' = session /\ utc_hour' = hour
    /\ score' = 0 /\ flags' = <<>> /\ detailed_findings' = {}
    /\ UNCHANGED <<user_segment, dynamic_threshold, ml_result, risk_level,
                   result, stage_log, escaped>>
    /\ UNCHANGED <<engine_vars, user_profiles, network_vars, alert_tasks, call>>
    /\ UNCHANGED <<detector_vars, first_result, client_vars>>

\* ---- 1. GeoIP validation (lines 64-80) ----
\* the result dict carries flags, score_adjustment, location, vpn_info and
\* is_datacenter; the section reads the keys region_match and risk_score
GeoIPStage ==
    /\ pc = "geoip"
    /\ pc' = "identifiers"
    /\ IF Truthy(ip_address_of(event)) /\ Truthy(region_of(event))
       THEN \E looked_up \in Locations :
            LET found == LocationFor(ip_cache, ip_address_of(event), looked_up)
                geoip_result == validate_ip_region_consistency(
                                    found.data, region_of(event))
                mismatch == ~DictGet(geoip_result, "region_match", TRUE)
                delta    == IF mismatch
                            THEN DictGet(geoip_result, "risk_score", 500)
                            ELSE 0
                added    == IF mismatch THEN <<"geoip_region_mismatch">>
                                        ELSE <<>>
                \* detect_impossible_travel(user_id, ip_address)
                raised   == /\ Truthy(user_id_of(event))
                            /\ ~CallBinds({"user_id", "current_ip"},
                                          detect_impossible_travel_params,
                                          detect_impossible_travel_params)
            IN /\ found.consulted \/ looked_up = <<>>
               /\ ip_cache' = found.cache
               /\ flags' = flags \o added
               /\ score' = score + delta
               /\ detailed_findings' =
                     IF mismatch
                     THEN detailed_findings \cup {"geoip_validation"}
                     ELSE detailed_findings
               /\ stage_log' = Logged("geoip", raised, delta, added)
       ELSE UNCHANGED <<flags, score, detailed_findings, stage_log, ip_cache>>
    /\ UNCHANGED <<event, db, utc_hour, user_segment, dynamic_threshold,
                   ml_result, risk_level, result, escaped>>
    /\ UNCHANGED <<engine_vars, user_profiles, network_vars, alert_tasks, call>>
    /\ UNCHANGED <<feature_history, isolation_forest, forest_fit, first_result,
                   client_vars>>

\* ---- 2. missing identifiers (lines 85-90) ----
IdentifiersStage ==
    /\ pc = "identifiers"
    /\ pc' = "event_type"
    /\ LET no_user   == ~Truthy(user_id_of(event))
           no_device == ~Truthy(device_id_of(event))
           added == (IF no_user THEN <<"missing_user_id">> ELSE <<>>)
                    \o (IF no_device THEN <<"missing_device_id">> ELSE <<>>)
           delta == (IF no_user THEN 2000 ELSE 0)
                    + (IF no_device THEN 2000 ELSE 0)
       IN /\ flags' = flags \o added
          /\ score' = score + delta
          /\ stage_log' = Logged("identifiers", FALSE, delta, added)
    /\ UNCHANGED <<event, db, utc_hour, detailed_findings, user_segment,
                   dynamic_threshold, ml_result, risk_level, result, escaped>>
    /\ UNCHANGED <<engine_vars, user_profiles, network_vars, alert_tasks, call>>
    /\ UNCHANGED <<detector_vars, first_result, client_vars>>

\* ---- 3. basic event type rules (lines 95-97) ----
EventTypeStage ==
    /\ pc = "event_type"
    /\ pc' = "consent"
    /\ LET hit == event_type_of(event)
                      \in {"error", "login_failed", "token_refresh_failed"}
           added == IF hit THEN <<"auth_or_playback_error">> ELSE <<>>
           delta == IF hit THEN 3000 ELSE 0
       IN /\ flags' = flags \o added
          /\ score' = score + delta
          /\ stage_log' = Logged("event_type", FALSE, delta, added)
    /\ UNCHANGED <<event, db, utc_hour, detailed_findings, user_segment,
                   dynamic_threshold, ml_result, risk_level, result, escaped>>
    /\ UNCHANGED <<engine_vars, user_profiles, network_vars, alert_tasks, call>>
    /\ UNCHANGED <<detector_vars, first_result, client_vars>>

\* the rule without its is_eu test
ConsentRuleAnyRegion(is_eu, has_consent) ==
    IF ~has_consent
    THEN [delta |-> 5000, flags |-> <<"eu_privacy_violation">>]
    ELSE [delta |-> 0, flags |-> <<>>]

\* the contribution of the consent rule: "if is_eu and not has_consent"
ConsentRule(is_eu, has_consent) ==
    IF is_eu /\ ~has_consent
    THEN [delta |-> 5000, flags |-> <<"eu_privacy_violation">>]
    ELSE [delta |-> 0, flags |-> <<>>]

\* ---- 4. consent and privacy (lines 102-104) ----
ConsentStage ==
    /\ pc = "consent"
    /\ pc' = "segmentation"
    /\ LET rule == ConsentRule(is_eu_of(event), has_consent_of(event))
       IN /\ flags' = flags \o rule.flags
          /\ score' = score + rule.delta
          /\ stage_log' = Logged("consent", FALSE, rule.delta, rule.flags)
    /\ UNCHANGED <<event, db, utc_hour, detailed_findings, user_segment,
                   dynamic_threshold, ml_result, risk_level, result, escaped>>
    /\ UNCHANGED <<engine_vars, user_profiles, network_vars, alert_tasks, call>>
    /\ UNCHANGED <<detector_vars, first_result, client_vars>>

\* ---- 5. user segmentation (lines 109-153) ----
\* the queries raise (db_error), find no event of the user (no_events), or
\* yield the counters of a profile
SegmentationStage ==
    /\ pc = "segmentation"
    /\ pc' = "threshold"
    /\ IF db /\ Truthy(user_id_of(event))
       THEN \/ /\ stage_log' = Logged("segmentation", TRUE, 0, <<>>)
               /\ UNCHANGED <<user_segment, detailed_findings, user_profiles>>
            \/ /\ stage_log' = Logged("segmentation", FALSE, 0, <<>>)
               /\ UNCHANGED <<user_segment, detailed_findings, user_profiles>>
            \/ \E p \in DbProfiles :
               /\ p.user_id = user_id_of(event)
               /\ user_segment' = ClassifyProfile(p)
               /\ user_profiles' = ProfilesAfterUpdate(user_profiles, p)
               /\ detailed_findings' = detailed_findings \cup {"user_segment"}
               /\ stage_log' = Logged("segmentation", FALSE, 0, <<>>)
       ELSE UNCHANGED <<user_segment, detailed_findings, user_profiles,
                        stage_log>>
    /\ UNCHANGED <<event, db, utc_hour, score, flags, dynamic_threshold,
                   ml_result, risk_level, result, escaped>>
    /\ UNCHANGED <<engine_vars, network_vars, alert_tasks, call>>
    /\ UNCHANGED <<detector_vars, first_result, client_vars>>

\* section 6 without its try/except: the TypeError leaves the function
ThresholdStageUncaught ==
    /\ pc = "threshold"
    /\ IF CallBinds({"region", "user_segment", "time_of_day_utc"},
                    get_dynamic_risk_threshold_params,
                    get_dynamic_risk_threshold_params)
       THEN /\ pc' = "network"
            /\ dynamic_threshold' = get_dynamic_risk_threshold(
                    region_stats, user_segment, utc_hour, region_of(event))
            /\ detailed_findings' =
                    detailed_findings \cup {"adaptive_threshold"}
            /\ stage_log' = Logged("threshold", FALSE, 0, <<>>)
            /\ UNCHANGED escaped
       ELSE /\ pc' = "raised"
            /\ escaped' = TRUE
            /\ UNCHANGED <<dynamic_threshold, detailed_findings>>
            /\ stage_log' = Logged("threshold", TRUE, 0, <<>>)
    /\ UNCHANGED <<event, db, utc_hour, score, flags, user_segment,
                   ml_result, risk_level, result>>
    /\ UNCHANGED <<engine_vars, user_profiles, network_vars, alert_tasks, call>>
    /\ UNCHANGED <<detector_vars, first_result, client_vars>>

\* ---- 6. adaptive threshold (lines 158-167) ----
\* get_dynamic_risk_threshold(region=, user_segment=, time_of_day_utc=)
ThresholdStage ==
    /\ pc = "threshold"
    /\ pc' = "network"
    /\ IF CallBinds({"region", "user_segment", "time_of_day_utc"},
                    get_dynamic_risk_threshold_params,
                    get_dynamic_risk_threshold_params)
       THEN /\ dynamic_threshold' = get_dynamic_risk_threshold(
                    region_stats, user_segment, utc_hour, region_of(event))
            /\ detailed_findings' =
                    detailed_findings \cup {"adaptive_threshold"}
            /\ stage_log' = Logged("threshold", FALSE, 0, <<>>)
       ELSE /\ dynamic_threshold' = 8000
            /\ UNCHANGED detailed_findings
            /\ stage_log' = Logged("threshold", TRUE, 0, <<>>)
    /\ UNCHANGED <<event, db, utc_hour, score, flags, user_segment,
                   ml_result, risk_level, result, escaped>>
    /\ UNCHANGED <<engine_vars, user_profiles, network_vars, alert_tasks, call>>
    /\ UNCHANGED <<detector_vars, first_result, client_vars>>

\* ---- 7. network fraud detection (lines 172-189) ----
NetworkStage ==
    /\ pc = "network"
    /\ pc' = "ml_anomaly"
    /\ IF Truthy(user_id_of(event))
       THEN LET u  == user_id_of(event)
                g  == GraphAfterAdd(graph, u, device_id_of(event),
                          ip_address_of(event), payment_method_of(event))
                network_risk == get_user_network_risk(g, fraud_rings, u, 2)
                hit   == network_risk.risk_score > 500
                delta == IF hit THEN network_risk.risk_score * 2 ELSE 0
                added == IF hit THEN <<"fraud_ring_connection">> ELSE <<>>
            IN /\ graph' = g
               /\ device_connections' =
                     ConnectionsAdd(device_connections, device_id_of(event), u)
               /\ ip_connections' =
                     ConnectionsAdd(ip_connections, ip_address_of(event), u)
               /\ payment_connections' =
                     ConnectionsAdd(payment_connections,
                                    payment_method_of(event), u)
               /\ flags' = flags \o added
               /\ score' = score + delta
               /\ detailed_findings' =
                     detailed_findings \cup {"network_analysis"}
               /\ stage_log' = Logged("network", FALSE, delta, added)
       ELSE UNCHANGED <<graph, device_connections, ip_connections,
                        payment_connections, flags, score, detailed_findings,
                        stage_log>>
    /\ UNCHANGED <<event, db, utc_hour, user_segment, dynamic_threshold,
                   ml_result, risk_level, result, escaped, fraud_rings>>
    /\ UNCHANGED <<engine_vars, user_profiles, alert_tasks, call>>
    /\ UNCHANGED <<detector_vars, first_result, client_vars>>

\* ---- 8. ML anomaly detection (lines 194-222) ----
\* after the flag and the score the section calls
\* _add_to_history(event_features, is_violation=False)
MLAnomalyStage ==
    /\ pc = "ml_anomaly"
    /\ pc' = "violation_prediction"
    /\ IF db /\ Truthy(user_id_of(event))
       THEN \E answer \in ForestAnswers,
               lof \in {detect_anomaly_lof(feature_history,
                            FeaturesOfEventFeatures(is_eu_of(event),
                                                    has_consent_of(event)))} :
            LET features == FeaturesOfEventFeatures(is_eu_of(event),
                                                    has_consent_of(event))
                known  == features \in DOMAIN isolation_forest
                forest == detect_anomaly_isolation_forest(answer)
                res    == ensemble_anomaly_detection(forest[1], forest[2],
                                                     lof[1], lof[2])
                delta  == IF res.is_anomaly
                          THEN DictGet(res, "anomaly_score", 2000) ELSE 0
                added  == IF res.is_anomaly THEN <<"ml_ensemble_anomaly">>
                                            ELSE <<>>
                raised == ~CallBinds({"features", "is_violation"},
                                     _add_to_history_params,
                                     _add_to_history_params)
            IN /\ known => answer = isolation_forest[features]
               \* predict on a forest that is not fitted raises
               /\ forest_fit.object = "new" => answer.error
               /\ isolation_forest' =
                     IF known \/ forest_fit.object = "new"
                     THEN isolation_forest
                     ELSE (features :> answer) @@ isolation_forest
               /\ forest_fit' = LazyFit(forest_fit, features)
               \* line 173, inside ensemble_anomaly_detection
               /\ feature_history' =
                     _add_to_history(feature_history, features)
               /\ ml_result' = res
               /\ flags' = flags \o added
               /\ score' = score + delta
               /\ detailed_findings' =
                     IF raised THEN detailed_findings
                     ELSE detailed_findings \cup {"ml_anomaly_detection"}
               /\ stage_log' = Logged("ml_anomaly", raised, delta, added)
       ELSE UNCHANGED <<ml_result, flags, score, detailed_findings, stage_log,
                        feature_history, isolation_forest, forest_fit>>
    /\ UNCHANGED <<event, db, utc_hour, user_segment, dynamic_threshold,
                   risk_level, result, escaped>>
    /\ UNCHANGED <<engine_vars, user_profiles, network_vars, alert_tasks, call>>
    /\ UNCHANGED <<ip_cache, first_result, client_vars>>

\* ---- 9. violation prediction (lines 227-243) ----
\* predict_violation_likelihood(user_id=, recent_events_count=,
\*                              average_risk_score=)
ViolationPredictionStage ==
    /\ pc = "violation_prediction"
    /\ pc' = "compliance_check"
    /\ IF Truthy(user_id_of(event))
       THEN LET raised == ~CallBinds(
                    {"user_id", "recent_events_count", "average_risk_score"},
                    predict_violation_likelihood_params,
                    predict_violation_likelihood_params)
            IN /\ raised
               /\ stage_log' = Logged("violation_prediction", TRUE, 0, <<>>)
       ELSE UNCHANGED stage_log
    /\ UNCHANGED <<event, db, utc_hour, score, flags, detailed_findings,
                   user_segment, dynamic_threshold, ml_result, risk_level,
                   result, escaped>>
    /\ UNCHANGED <<engine_vars, user_profiles, network_vars, alert_tasks, call>>
    /\ UNCHANGED <<detector_vars, first_result, client_vars>>

\* ---- 10. multi-country compliance check (lines 248-262) ----
ComplianceCheckStage ==
    /\ pc = "compliance_check"
    /\ pc' = "subscription"
    /\ LET u == IF Truthy(user_id_of(event)) THEN user_id_of(event)
                                             ELSE "unknown"
           compliance_result == evaluate_event_compliance(
               u, event_type_of(event), region_of(event),
               [k \in {"has_explicit_consent"} |-> has_consent_of(event)])
           hit   == ~compliance_result.compliant
           delta == IF hit THEN Len(compliance_result.violations) * 2000
                           ELSE 0
           added == IF hit THEN <<"multi_country_violation">> ELSE <<>>
       IN /\ flags' = flags \o added
          /\ score' = score + delta
          /\ detailed_findings' = detailed_findings \cup {"compliance_check"}
          /\ stage_log' = Logged("compliance_check", FALSE, delta, added)
    /\ UNCHANGED <<event, db, utc_hour, user_segment, dynamic_threshold,
                   ml_result, risk_level, result, escaped>>
    /\ UNCHANGED <<engine_vars, user_profiles, network_vars, alert_tasks, call>>
    /\ UNCHANGED <<detector_vars, first_result, client_vars>>

\* the premium discount without its floor
SubscriptionAdjustNoFloor(plan, sc) ==
    IF plan = "premium" THEN sc - 1000
    ELSE IF plan = "basic" THEN sc + 1000
    ELSE sc

\* the score after the subscription adjustment
SubscriptionAdjust(plan, sc) ==
    IF plan = "premium" THEN Max(0, sc - 1000)
    ELSE IF plan = "basic" THEN sc + 1000
    ELSE sc

\* ---- 11. subscription-based adjustment (lines 267-270) ----
SubscriptionStage ==
    /\ pc = "subscription"
    /\ pc' = "time_window"
    /\ score' = SubscriptionAdjust(subscription_plan_of(event), score)
    /\ stage_log' = Logged("subscription", FALSE, score' - score, <<>>)
    /\ UNCHANGED <<event, db, utc_hour, flags, detailed_findings,
                   user_segment, dynamic_threshold, ml_result, risk_level,
                   result, escaped>>
    /\ UNCHANGED <<engine_vars, user_profiles, network_vars, alert_tasks, call>>
    /\ UNCHANGED <<detector_vars, first_result, client_vars>>

\* ---- 12. time-window analysis (lines 275-295) ----
\* the query raises, or returns the events of the last hour
TimeWindowStage ==
    /\ pc = "time_window"
    /\ pc' = "risk_level"
    /\ IF db /\ Truthy(user_id_of(event)) /\ Truthy(timestamp_of(event))
       THEN \/ /\ stage_log' = Logged("time_window", TRUE, 0, <<>>)
               /\ UNCHANGED <<flags, score>>
            \/ \E w \in DbWindows :
               LET many_regions == w[2] > 2
                   many_events  == w[1] > 10
                   added == (IF many_regions THEN <<"multi_region_access">>
                                             ELSE <<>>)
                            \o (IF many_events
                                THEN <<"high_frequency_activity">> ELSE <<>>)
                   delta == (IF many_regions THEN 2000 ELSE 0)
                            + (IF many_events THEN 1000 ELSE 0)
               IN /\ flags' = flags \o added
                  /\ score' = score + delta
                  /\ stage_log' = Logged("time_window", FALSE, delta, added)
       ELSE UNCHANGED <<flags, score, stage_log>>
    /\ UNCHANGED <<event, db, utc_hour, detailed_findings, user_segment,
                   dynamic_threshold, ml_result, risk_level, result, escaped>>
    /\ UNCHANGED <<engine_vars, user_profiles, network_vars, alert_tasks, call>>
    /\ UNCHANGED <<detector_vars, first_result, client_vars>>

\* high only above the threshold
RiskLevelStrict(sc, threshold) ==
    LET threshold_high   == IF threshold # 0 THEN threshold ELSE 8000
        threshold_medium == Max(0, threshold_high - 3000)
    IN IF sc > threshold_high THEN "high"
       ELSE IF sc >= threshold_medium THEN "medium"
       ELSE "low"

\* lines 301-309
RiskLevel(sc, threshold) ==
    LET threshold_high   == IF threshold # 0 THEN threshold ELSE 8000
        threshold_medium == Max(0, threshold_high - 3000)
    IN IF sc >= threshold_high THEN "high"
       ELSE IF sc >= threshold_medium THEN "medium"
       ELSE "low"

\* round(score, 2) on thousandths: to the nearest hundredth, ties to even
Round2(sc) ==
    LET lo == (sc \div 10) * 10
        r  == sc - lo
    IN IF r < 5 THEN lo
       ELSE IF r > 5 THEN lo + 10
       ELSE IF (lo \div 10) % 2 = 0 THEN lo ELSE lo + 10

\* ---- 13. risk level and result (lines 301-316) ----
RiskLevelStage ==
    /\ pc = "risk_level"
    /\ pc' = "record"
    /\ risk_level' = RiskLevel(score, dynamic_threshold)
    /\ result' = [score |-> Round2(score), risk_level |-> risk_level',
                  flags |-> flags, detailed_findings |-> detailed_findings]
    /\ UNCHANGED <<event, db, utc_hour, score, flags, detailed_findings,
                   user_segment, dynamic_threshold, ml_result, stage_log,
                   escaped>>
    /\ UNCHANGED <<engine_vars, user_profiles, network_vars, alert_tasks, call>>
    /\ UNCHANGED <<detector_vars, first_result, client_vars>>

\* ---- 14. record metrics and trigger alerts (lines 321-351) ----
\* record_event(region=, time_of_day=, score=, violation=), then
\* create_task(send_alert(severity=, title=, message=, details=))
RecordStage ==
    /\ pc = "record"
    /\ pc' = "done"
    /\ IF db /\ risk_level \in {"high", "critical"}
       THEN IF CallBinds({"region", "time_of_day", "score", "violation"},
                         record_event_params, record_event_params)
            THEN /\ time_of_day_stats' = StatsAppend(time_of_day_stats,
                        utc_hour, score, risk_level = "high")
                 /\ region_stats' = StatsAppend(region_stats,
                        region_of(event), score, risk_level = "high")
                 /\ user_segment_stats' = StatsAppend(user_segment_stats,
                        user_segment, score, risk_level = "high")
                 /\ IF /\ stage_log["ml_anomaly"].entered
                       /\ ~CallBinds({"features", "is_violation"},
                                     _add_to_history_params,
                                     _add_to_history_params)
                    THEN /\ UNCHANGED alert_tasks
                         /\ stage_log' = Logged("record", TRUE, 0, <<>>)
                    ELSE /\ IF CallBinds({"severity", "title", "message",
                                          "details"},
                                         send_alert_params,
                                         send_alert_required)
                            THEN alert_tasks' = Append(alert_tasks,
                                    [severity |->
                                        IF risk_level = "high" THEN "HIGH"
                                        ELSE "CRITICAL",
                                     user_id |-> user_id_of(event),
                                     score |-> score, flags |-> flags])
                            ELSE UNCHANGED alert_tasks
                         /\ stage_log' = Logged("record", FALSE, 0, <<>>)
            ELSE /\ UNCHANGED <<engine_vars, alert_tasks>>
                 /\ stage_log' = Logged("record", TRUE, 0, <<>>)
       ELSE UNCHANGED <<engine_vars, alert_tasks, stage_log>>
    /\ UNCHANGED <<event, db, utc_hour, score, flags, detailed_findings,
                   user_segment, dynamic_threshold, ml_result, risk_level,
                   result, escaped>>
    /\ UNCHANGED <<user_profiles, network_vars, call>>
    /\ UNCHANGED <<detector_vars, first_result, client_vars>>

\* the network detector after the add_user_event calls in adds (tuples
\* <<user, device, ip, payment>>) followed by detect_fraud_rings(m)
RECURSIVE NetworkAfter(_, _)
NetworkAfter(adds, m) ==
    IF adds = <<>>
    THEN [graph |-> EmptyGraph, devs |-> EmptyDict, ips |-> EmptyDict,
          pays |-> EmptyDict, rings |-> <<>>]
    ELSE LET before == NetworkAfter(SubSeq(adds, 1, Len(adds) - 1), m)
             a      == adds[Len(adds)]
             devs   == ConnectionsAdd(before.devs, a[2], a[1])
             ips    == ConnectionsAdd(before.ips, a[3], a[1])
             pays   == ConnectionsAdd(before.pays, a[4], a[1])
         IN [graph |-> GraphAfterAdd(before.graph, a[1], a[2], a[3], a[4]),
             devs  |-> devs, ips |-> ips, pays |-> pays,
             rings |-> RingUsers(detect_fraud_rings(devs, ips, pays, m))]

\* the detector states an evaluation starts from: nothing seen yet, and two
\* users seen on one device with the ring of size 2 detected
InitialNetworks ==
    {NetworkAfter(<<>>, 5),
     NetworkAfter(<<<<"u1", "d1", None, None>>, <<"u2", "d1", None, None>>>>, 2)}

ComponentsInit ==
    /\ time_of_day_stats = EmptyDict /\ region_stats = EmptyDict
    /\ user_segment_stats = EmptyDict
    /\ user_profiles = EmptyDict
    /\ \E net \in InitialNetworks :
        /\ graph = net.graph
        /\ device_connections = net.devs /\ ip_connections = net.ips
        /\ payment_connections = net.pays
        /\ fraud_rings = net.rings
    /\ alert_tasks = <<>>
    /\ ip_cache = <<>>
    /\ feature_history = <<>>
    /\ isolation_forest = EmptyDict /\ forest_fit = NoForest
    /\ first_result = None
    /\ ClientIdle

Init ==
    /\ ComponentsInit
    /\ EvalIdle
    /\ call = [op |-> "none"]

\* one call of evaluate_compliance; pc = "done" is line 353, the return
Next ==
    \/ /\ pc = "idle"
       /\ \E e \in Events, session \in BOOLEAN, hour \in Hours :
              Receive(e, session, hour)
    \/ GeoIPStage
    \/ IdentifiersStage
    \/ EventTypeStage
    \/ ConsentStage
    \/ SegmentationStage
    \/ ThresholdStage
    \/ NetworkStage
    \/ MLAnomalyStage
    \/ ViolationPredictionStage
    \/ ComplianceCheckStage
    \/ SubscriptionStage
    \/ TimeWindowStage
    \/ RiskLevelStage
    \/ RecordStage

Spec == Init /\ [][Next]_vars

(***************************************************************************)
(* The components called directly by a client: tests, the demo, the API    *)
(***************************************************************************)
\* ---- bounds ----
MaxRecords    == 5
ThrSegments   == {None, "power_user", "new_user", "suspicious",
                  "suspicious_user"}
ThrHours      == {-1, 3, 11, 24}
ThrRegions    == {"EU", "ZZ"}
RecScores     == {7500}

NoCall == [op |-> "none"]

RecordsMade ==
    LET total(stats) ==
            IF DOMAIN stats = {} THEN 0
            ELSE LET RECURSIVE sum(_)
                     sum(K) == IF K = {} THEN 0
                               ELSE LET k == CHOOSE x \in K : TRUE
                                    IN Len(stats[k].scores) + sum(K \ {k})
                 IN sum(DOMAIN stats)
    IN total(region_stats)

\* AdaptiveThresholds.record_event (lines 56-78)
RecordEvent(risk_score, is_violation, seg, hour, region) ==
    /\ RecordsMade < MaxRecords
    /\ time_of_day_stats' =
           StatsAppend(time_of_day_stats, hour, risk_score, is_violation)
    /\ region_stats' =
           StatsAppend(region_stats, region, risk_score, is_violation)
    /\ user_segment_stats' =
           StatsAppend(user_segment_stats, seg, risk_score, is_violation)
    /\ call' = [op |-> "record_event", ret |-> 0,
                args |-> [user_segment |-> seg, hour |-> hour,
                          region |-> region]]
    /\ UNCHANGED <<user_profiles, network_vars, alert_tasks, eval_vars>>
    /\ UNCHANGED <<detector_vars, first_result, client_vars>>

\* AdaptiveThresholds.get_dynamic_risk_threshold (lines 27-54)
GetDynamicRiskThreshold(seg, hour, region) ==
    /\ call' = [op |-> "get_dynamic_risk_threshold",
                ret |-> get_dynamic_risk_threshold(region_stats, seg, hour,
                                                   region),
                args |-> [user_segment |-> seg, hour |-> hour,
                          region |-> region]]
    /\ UNCHANGED <<engine_vars, user_profiles, network_vars, alert_tasks,
                   eval_vars>>
    /\ UNCHANGED <<detector_vars, first_result, client_vars>>

\* the threshold of every input the client may ask for
ThresholdTable(rstats) ==
    [k \in ThrSegments \X ThrHours \X ThrRegions |->
        get_dynamic_risk_threshold(rstats, k[1], k[2], k[3])]

\* AdaptiveThresholds.update_thresholds_from_violations (lines 130-142): the
\* percentile of a region with five violations or more is logged and the
\* accumulators are written to disk; nothing in memory is assigned
UpdateThresholdsFromViolations ==
    /\ call' = [op |-> "update_thresholds_from_violations", ret |-> 0,
                before |-> ThresholdTable(region_stats),
                percentiles |-> {r \in DOMAIN region_stats :
                                   Len(region_stats[r].violations) >= 5}]
    /\ UNCHANGED <<engine_vars, user_profiles, network_vars, alert_tasks,
                   eval_vars>>
    /\ UNCHANGED <<detector_vars, first_result, client_vars>>

NetworkEmpty ==
    /\ graph = EmptyGraph
    /\ device_connections = EmptyDict /\ ip_connections = EmptyDict
    /\ payment_connections = EmptyDict
    /\ fraud_rings = <<>>

ComponentsFresh ==
    /\ time_of_day_stats = EmptyDict /\ region_stats = EmptyDict
    /\ user_segment_stats = EmptyDict
    /\ user_profiles = EmptyDict
    /\ NetworkEmpty
    /\ alert_tasks = <<>>
    /\ ip_cache = <<>> /\ feature_history = <<>>
    /\ isolation_forest = EmptyDict /\ forest_fit = NoForest
    /\ first_result = None
    /\ ClientIdle
    /\ EvalIdle

ClientInit ==
    /\ ComponentsFresh
    /\ call = NoCall

NextThr ==
    \/ \E sc \in RecScores, v \in BOOLEAN, seg \in {"power_user"},
          hour \in {11}, region \in ThrRegions :
           RecordEvent(sc, v, seg, hour, region)
    \/ \E seg \in ThrSegments, hour \in ThrHours, region \in ThrRegions :
           GetDynamicRiskThreshold(seg, hour, region)
    \/ UpdateThresholdsFromViolations

SpecThr == ClientInit /\ [][NextThr]_vars

\* ---- UserSegmentationEngine ----
SegUsers  == {"u1", "u2"}
Counts30  == {0, 20, 501}
Counts7   == {0, 20, 40}
Violations30 == {0, 6}
SignupDays   == {15, 200}
ActivityDays == {1, 40, 100}

SegProfiles ==
    [user_id : SegUsers, event_count_30d : Counts30, event_count_7d : Counts7,
     violation_count_30d : Violations30, days_since_signup : SignupDays,
     last_activity_days_ago : ActivityDays, avg_risk_score : {0}]

\* UserSegmentationEngine.classify_user (lines 34-68)
ClassifyUser(p) ==
    /\ call' = [op |-> "classify_user", args |-> p, ret |-> ClassifyProfile(p)]
    /\ UNCHANGED <<engine_vars, user_profiles, network_vars, alert_tasks,
                   eval_vars>>
    /\ UNCHANGED <<detector_vars, first_result, client_vars>>

\* UserSegmentationEngine.update_user_profile (lines 122-155)
UpdateUserProfile(p) ==
    /\ user_profiles' = ProfilesAfterUpdate(user_profiles, p)
    /\ call' = [op |-> "update_user_profile", args |-> p,
                ret |-> ClassifyProfile(p)]
    /\ UNCHANGED <<engine_vars, network_vars, alert_tasks, eval_vars>>
    /\ UNCHANGED <<detector_vars, first_result, client_vars>>

\* the profiles update_user_profile is given: a subset, to bound the table
StoredProfiles ==
    {p \in SegProfiles : p.event_count_7d = 0 /\ p.last_activity_days_ago = 1
                         /\ p.violation_count_30d = 0}

NextSeg ==
    \/ \E p \in SegProfiles : ClassifyUser(p)
    \/ \E p \in StoredProfiles : UpdateUserProfile(p)

SpecSeg == ClientInit /\ [][NextSeg]_vars

\* ---- ComplianceChecker ----
RegRegions    == DOMAIN REGION_REGULATIONS \cup {"ZZ"}
RegEventTypes == DOMAIN event_action_mapping \cup {"play"}
ConsentDetail == {<<>>, "has_explicit_consent" :> TRUE,
                  "has_explicit_consent" :> FALSE}
AccessDetail  == {<<>>, "access_time_days" :> 31}
DeletionDetail == {<<>>, "deletion_time_days" :> 31}
NoticeDetail  == {<<>>, "notification_time_days" :> 31,
                  "notification_time_days" :> 73}

EventDetails ==
    {c @@ a @@ d @@ n : c \in ConsentDetail, a \in AccessDetail,
                        d \in DeletionDetail, n \in NoticeDetail}

\* a client is about to call evaluate_event_compliance with these arguments
InitReg ==
    /\ ComponentsFresh
    /\ \E t \in RegEventTypes, r \in RegRegions, det \in EventDetails :
          call = [op |-> "request", ret |-> NoCall,
                  args |-> [user_id |-> "u1", event_type |-> t, region |-> r,
                            event_details |-> det]]

\* ComplianceChecker.evaluate_event_compliance (lines 260-297)
EvaluateEventCompliance ==
    /\ call.op = "request"
    /\ call' = [op |-> "evaluate_event_compliance", args |-> call.args,
                ret |-> evaluate_event_compliance(call.args.user_id,
                            call.args.event_type, call.args.region,
                            call.args.event_details)]
    /\ UNCHANGED <<engine_vars, user_profiles, network_vars, alert_tasks,
                   eval_vars>>
    /\ UNCHANGED <<detector_vars, first_result, client_vars>>

NextReg == EvaluateEventCompliance

SpecReg == InitReg /\ [][NextReg]_vars

\* ---- RegulationFramework called directly ----
CheckActions == {"data_access", "data_deletion", "consent",
                 "breach_notification", "data_retention", "dpia",
                 "data_portability"}
CheckDetails ==
    {<<>>, "access_time_days" :> 30, "access_time_days" :> 31,
     "deletion_time_days" :> 31, "has_explicit_consent" :> TRUE,
     "has_explicit_consent" :> FALSE, "notification_time_days" :> 31,
     "notification_time_days" :> 73, "retention_years" :> 2,
     "retention_years" :> 6, "retention_years" :> 8,
     "has_dpia" :> TRUE, "has_dpia" :> FALSE}

\* RegulationFramework.check_violation (lines 197-251), called directly
CheckViolation(action, regulation, details) ==
    /\ call' = [op |-> "check_violation",
                args |-> [action |-> action, regulation |-> regulation,
                          details |-> details],
                ret |-> check_violation(action, regulation, details)]
    /\ UNCHANGED <<engine_vars, user_profiles, network_vars, alert_tasks,
                   eval_vars>>
    /\ UNCHANGED <<detector_vars, first_result, client_vars>>

\* ComplianceChecker._map_event_to_action (lines 299-308)
MapEventToAction(event_type) ==
    /\ call' = [op |-> "_map_event_to_action",
                args |-> [event_type |-> event_type],
                ret |-> _map_event_to_action(event_type)]
    /\ UNCHANGED <<engine_vars, user_profiles, network_vars, alert_tasks,
                   eval_vars>>
    /\ UNCHANGED <<detector_vars, first_result, client_vars>>

NextCheck ==
    \/ \E action \in CheckActions, regulation \in DOMAIN REGULATION_REQUIREMENTS,
          details \in CheckDetails :
           CheckViolation(action, regulation, details)
    \/ \E event_type \in RegEventTypes : MapEventToAction(event_type)

SpecCheck == ClientInit /\ [][NextCheck]_vars

\* ---- GeoIPValidator ----
GeoIps     == {"ip1", "ip2", "ip3", "ip4"}
GeoRegions == {None, "EU"}

\* what earlier validate_ip_region_consistency calls answered, per
\* <<ip_address, claimed_region>>, for the addresses the cache still holds
AnswersKept(answers, cache) ==
    [p \in {q \in DOMAIN answers : CacheHas(cache, q[1])} |-> answers[p]]

\* GeoIPValidator.validate_ip_region_consistency (lines 32-99); looked_up is
\* what _get_ip_location answers if it is asked
ValidateIpRegionConsistency(ip_address, claimed_region, looked_up) ==
    LET found == LocationFor(ip_cache, ip_address, looked_up)
        ret   == validate_ip_region_consistency(found.data, claimed_region)
    IN /\ found.consulted \/ looked_up = <<>>
       /\ ip_cache' = found.cache
       /\ call' = [op |-> "validate_ip_region_consistency", ret |-> ret,
                   args |-> [ip_address |-> ip_address,
                             claimed_region |-> claimed_region],
                   consulted |-> found.consulted,
                   looked_up |-> looked_up,
                   cached_before |-> Len(ip_cache)]
       /\ first_result' =
              (<<ip_address, claimed_region>> :> ret)
                  @@ AnswersKept(first_result, found.cache)
       /\ UNCHANGED <<engine_vars, user_profiles, network_vars, alert_tasks,
                      eval_vars, feature_history, isolation_forest,
                      forest_fit, client_vars>>

\* places, as _get_ip_location describes them (lines 163-190)
Seoul ==
    [country_code |-> "KR", country_name |-> "South Korea", region |-> "11",
     city |-> "seoul", latitude |-> 37566, longitude |-> 126978,
     is_datacenter |-> FALSE]
Tokyo ==
    [country_code |-> "JP", country_name |-> "Japan", region |-> "13",
     city |-> "tokyo", latitude |-> 35676, longitude |-> 139650,
     is_datacenter |-> FALSE]
NewYork ==
    [country_code |-> "US", country_name |-> "United States", region |-> "NY",
     city |-> "new york", latitude |-> 40713, longitude |-> -74006,
     is_datacenter |-> FALSE]
\* what _get_ip_location answers for the current address ({}: failure)
TravelLocations == {<<>>, Tokyo, NewYork}

\* the previous location a caller passes: nothing, coordinates only (as the
\* test does), coordinates with a timestamp, and the full description
LastLocations ==
    {<<>>,
     [latitude |-> 37566, longitude |-> 126978],
     [latitude |-> 37566, longitude |-> 126978, timestamp |-> 7200],
     [latitude |-> 37566, longitude |-> 126978, timestamp |-> 7200,
      city |-> "seoul", country |-> "South Korea"]}
\* seconds since the epoch
TravelTimestamps == {3600, 7200, 10800, 43200, 79200}

\* lines 118-126: the haversine distance in km between the model's places
distance_km(from, to) ==
    LET a == <<from.latitude, from.longitude>>
        b == <<to.latitude, to.longitude>>
        seoul == <<37566, 126978>>
        tokyo == <<35676, 139650>>
        newyork == <<40713, -74006>>
    IN CASE a = b -> 0
         [] {a, b} = {seoul, tokyo} -> 1149
         [] {a, b} = {seoul, newyork} -> 11053
         [] {a, b} = {tokyo, newyork} -> 10852

\* speed_kmh > limit, with time_hours = elapsed / 3600 and elapsed > 0
SpeedExceeds(distance, elapsed, limit) == distance * 3600 > limit * elapsed

NoTravel == [impossible_travel |-> FALSE]

\* lines 101-151, given what _get_ip_location answered; the return value
\* None is the record NoTravel. A missing key raises KeyError inside the try
\* block, which answers None
detect_impossible_travel(current_location, last_location, current_timestamp) ==
    LET elapsed == current_timestamp - DictGet(last_location, "timestamp", 0)
        distance == distance_km(last_location, current_location)
    IN IF last_location = <<>> \/ DictGet(last_location, "latitude", 0) = 0
       THEN NoTravel
       ELSE IF \/ "longitude" \notin DOMAIN last_location
               \/ ~({"latitude", "longitude"} \subseteq DOMAIN current_location)
       THEN NoTravel
       ELSE IF elapsed > 0 /\ SpeedExceeds(distance, elapsed, 1000)
       THEN IF /\ {"city", "country"} \subseteq DOMAIN last_location
               /\ {"city", "country"} \subseteq DOMAIN current_location
            THEN [impossible_travel |-> TRUE, distance_km |-> distance,
                  risk |-> IF SpeedExceeds(distance, elapsed, 5000)
                           THEN "critical" ELSE "high"]
            ELSE NoTravel
       ELSE NoTravel

\* GeoIPValidator.detect_impossible_travel called with all four arguments
DetectImpossibleTravel(current_ip, last_location, current_timestamp, looked_up) ==
    /\ call' = [op |-> "detect_impossible_travel",
                ret |-> detect_impossible_travel(looked_up, last_location,
                                                 current_timestamp),
                args |-> [current_ip |-> current_ip,
                          last_location |-> last_location,
                          current_timestamp |-> current_timestamp],
                looked_up |-> looked_up]
    /\ UNCHANGED <<engine_vars, user_profiles, network_vars, alert_tasks,
                   eval_vars, detector_vars, first_result, client_vars>>

InitGeo ==
    /\ time_of_day_stats = EmptyDict /\ region_stats = EmptyDict
    /\ user_segment_stats = EmptyDict
    /\ user_profiles = EmptyDict
    /\ NetworkEmpty
    /\ alert_tasks = <<>>
    /\ ip_cache = <<>> /\ feature_history = <<>>
    /\ isolation_forest = EmptyDict /\ forest_fit = NoForest
    /\ first_result = EmptyDict
    /\ ClientIdle
    /\ EvalIdle
    /\ call = NoCall

NextGeo ==
    \E ip_address \in GeoIps, claimed_region \in GeoRegions,
       looked_up \in Locations :
        ValidateIpRegionConsistency(ip_address, claimed_region, looked_up)

SpecGeo == InitGeo /\ [][NextGeo]_vars

NextTravel ==
    \E current_ip \in {"ip1", "ip2"}, last_location \in LastLocations,
       looked_up \in TravelLocations, current_timestamp \in TravelTimestamps :
        DetectImpossibleTravel(current_ip, last_location, current_timestamp,
                               looked_up)

SpecTravel == InitGeo /\ [][NextTravel]_vars

\* ---- EnhancedAnomalyDetector ----
\* calls made on top of the initial history
MaxEnsembleCalls == 3

\* feature histories left by earlier calls: 20 and 21 rows, one of them
\* unlike the others
Histories ==
    {<<FeatA, FeatB>> \o Copies(18, FeatA),
     <<FeatA, FeatB>> \o Copies(19, FeatA)}

\* the calls the client has made so far
EnsembleCallsMade ==
    IF call.op = "ensemble_anomaly_detection" THEN call.made ELSE 0

\* EnhancedAnomalyDetector.ensemble_anomaly_detection (lines 136-176) for an
\* event dict with the keys is_eu and has_consent; answer is what the forest
\* says about the event's feature vector
EnsembleAnomalyDetection(is_eu, has_consent, answer) ==
    /\ EnsembleCallsMade < MaxEnsembleCalls
    /\ \E lof \in {detect_anomaly_lof(feature_history,
                       FeaturesOfEventFeatures(is_eu, has_consent))} :
        LET features == FeaturesOfEventFeatures(is_eu, has_consent)
            known    == features \in DOMAIN isolation_forest
            forest   == detect_anomaly_isolation_forest(answer)
        IN /\ known => answer = isolation_forest[features]
           \* predict on a forest that is not fitted raises
           /\ forest_fit.object = "new" => answer.error
           /\ isolation_forest' =
                  IF known \/ forest_fit.object = "new"
                  THEN isolation_forest
                  ELSE (features :> answer) @@ isolation_forest
           /\ forest_fit' = LazyFit(forest_fit, features)
           /\ feature_history' = _add_to_history(feature_history, features)
           /\ call' = [op |-> "ensemble_anomaly_detection",
                       args |-> [is_eu |-> is_eu, has_consent |-> has_consent],
                       detectors |-> [isolation_forest |-> forest, lof |-> lof],
                       made |-> EnsembleCallsMade + 1,
                       fitted_before |-> forest_fit.object # "none",
                       forest_seen |-> forest_fit.object,
                       history_before |-> Len(feature_history),
                       ret |-> ensemble_anomaly_detection(
                                   forest[1], forest[2], lof[1], lof[2])]
    /\ UNCHANGED <<engine_vars, user_profiles, network_vars, alert_tasks,
                   eval_vars, ip_cache, first_result, client_vars>>

InitEns ==
    /\ time_of_day_stats = EmptyDict /\ region_stats = EmptyDict
    /\ user_segment_stats = EmptyDict
    /\ user_profiles = EmptyDict
    /\ NetworkEmpty
    /\ alert_tasks = <<>>
    /\ ip_cache = <<>>
    /\ feature_history \in Histories
    /\ isolation_forest = EmptyDict /\ forest_fit = NoForest
    /\ first_result = None
    /\ ClientIdle
    /\ EvalIdle
    /\ call = NoCall

NextEns ==
    \E is_eu \in BOOLEAN, has_consent \in BOOLEAN, answer \in ForestAnswers :
        EnsembleAnomalyDetection(is_eu, has_consent, answer)

SpecEns == InitEns /\ [][NextEns]_vars

\* ---- retraining, on demand and by the scheduler ----
\* histories around the 100 rows retraining asks for, and an empty one
RetrainHistories ==
    {<<>>, Copies(99, FeatA), Copies(100, FeatA), <<FeatB>> \o Copies(99, FeatA),
     Copies(101, FeatA)}

\* the forest before: none, or one fitted lazily by an earlier evaluation
RetrainForests ==
    {[fit |-> NoForest, memo |-> EmptyDict]} \cup
    {[fit |-> LazyFit(NoForest, FeatA), memo |-> (FeatA :> a)] :
        a \in ForestAnswers}

\* ModelRetrainingScheduler._retrain_anomaly_detector (lines 104-140);
\* importable: does "from ml_models import anomaly_detector" (line 106,
\* outside the try block) find a module
_retrain_anomaly_detector(importable, history, memo, fit) ==
    IF ~importable
    THEN [raised |-> TRUE, successful_retrainings |-> 0,
          isolation_forest |-> memo, forest_fit |-> fit]
    ELSE IF Len(history) > scheduler_min_samples
    THEN LET r == retrain_models(history, memo, fit, FALSE)
         IN [raised |-> FALSE, successful_retrainings |-> 1,
             isolation_forest |-> r.isolation_forest,
             forest_fit |-> r.forest_fit]
    ELSE [raised |-> FALSE, successful_retrainings |-> 0,
          isolation_forest |-> memo, forest_fit |-> fit]

\* ModelRetrainingScheduler.trigger_immediate_retraining (lines 243-265)
trigger_immediate_retraining(model_name, job) ==
    IF model_name = "anomaly_detector"
    THEN IF job.raised
         THEN [success |-> FALSE, message |-> "No module named 'ml_models'"]
         ELSE [success |-> TRUE,
               message |-> "Anomaly detector retraining triggered"]
    ELSE [success |-> FALSE, message |-> "Unknown model"]

ForestBefore == [isolation_forest |-> isolation_forest, forest_fit |-> forest_fit]

\* POST /api/v1/analytics/ml-models/retrain (main.py 837-852)
RetrainModels(force) ==
    LET r == retrain_models(feature_history, isolation_forest, forest_fit,
                            force)
    IN /\ isolation_forest' = r.isolation_forest
       /\ forest_fit' = r.forest_fit
       /\ call' = [op |-> "retrain_models", args |-> [force |-> force],
                   ret |-> r.ret, before |-> ForestBefore]
       /\ UNCHANGED <<engine_vars, user_profiles, network_vars, alert_tasks,
                      eval_vars, ip_cache, feature_history, first_result,
                      client_vars>>

\* the scheduler's daily job
RetrainAnomalyDetector(importable) ==
    LET job == _retrain_anomaly_detector(importable, feature_history,
                                         isolation_forest, forest_fit)
    IN /\ isolation_forest' = job.isolation_forest
       /\ forest_fit' = job.forest_fit
       /\ call' = [op |-> "_retrain_anomaly_detector",
                   args |-> [force |-> FALSE, importable |-> importable],
                   ret |-> job, before |-> ForestBefore]
       /\ UNCHANGED <<engine_vars, user_profiles, network_vars, alert_tasks,
                      eval_vars, ip_cache, feature_history, first_result,
                      client_vars>>

\* POST /api/v1/ml/retrain/{model_name} (main.py 484-491)
TriggerImmediateRetraining(model_name, importable) ==
    LET job == _retrain_anomaly_detector(importable, feature_history,
                                         isolation_forest, forest_fit)
        ran == model_name = "anomaly_detector"
    IN /\ isolation_forest' = IF ran THEN job.isolation_forest
                                     ELSE isolation_forest
       /\ forest_fit' = IF ran THEN job.forest_fit ELSE forest_fit
       /\ call' = [op |-> "trigger_immediate_retraining",
                   args |-> [force |-> FALSE, importable |-> importable,
                             model_name |-> model_name],
                   ret |-> trigger_immediate_retraining(model_name, job),
                   before |-> ForestBefore]
       /\ UNCHANGED <<engine_vars, user_profiles, network_vars, alert_tasks,
                      eval_vars, ip_cache, feature_history, first_result,
                      client_vars>>

InitRetrain ==
    /\ time_of_day_stats = EmptyDict /\ region_stats = EmptyDict
    /\ user_segment_stats = EmptyDict
    /\ user_profiles = EmptyDict
    /\ NetworkEmpty
    /\ alert_tasks = <<>>
    /\ ip_cache = <<>>
    /\ feature_history \in RetrainHistories
    /\ \E f \in RetrainForests :
          isolation_forest = f.memo /\ forest_fit = f.fit
    /\ first_result = None
    /\ ClientIdle
    /\ EvalIdle
    /\ call = NoCall

NextRetrain ==
    \/ \E force \in BOOLEAN : RetrainModels(force)
    \/ \E importable \in BOOLEAN : RetrainAnomalyDetector(importable)
    \/ \E model_name \in {"anomaly_detector", "recommender"},
          importable \in BOOLEAN :
           TriggerImmediateRetraining(model_name, importable)

SpecRetrain == InitRetrain /\ [][NextRetrain]_vars

\* ---- retrain_models on a thread of its own, beside the evaluations ----
\* the thread that runs retrain_models; its record holds where in the call
\* it stands and, once the call is over, what the call returned
Retrainer == "retrain_models"

\* lines 188-193: the refusal, else X = np.array(self.feature_history)
RetrainEnter(force) ==
    /\ Retrainer \in DOMAIN threads => threads[Retrainer].pc = "done"
    /\ threads' =
           (Retrainer :>
               IF Len(feature_history) < retrain_min_samples /\ ~force
               THEN [pc |-> "done", force |-> force, X |-> <<>>, ret |-> FALSE]
               ELSE [pc |-> "install", force |-> force, X |-> feature_history,
                     ret |-> FALSE])
    /\ UNCHANGED <<engine_vars, user_profiles, network_vars, alert_tasks,
                   eval_vars, detector_vars, first_result, breaker, now,
                   _event_queue, _stats, queue_log, call>>

\* lines 195-199: self.isolation_forest = IsolationForest(...)
RetrainInstall ==
    /\ Retrainer \in DOMAIN threads
    /\ threads[Retrainer].pc = "install"
    /\ forest_fit' = InstalledForest
    /\ isolation_forest' = EmptyDict
    /\ threads' = [threads EXCEPT ![Retrainer].pc = "fit"]
    /\ UNCHANGED <<engine_vars, user_profiles, network_vars, alert_tasks,
                   eval_vars, ip_cache, feature_history, first_result, breaker,
                   now, _event_queue, _stats, queue_log, call>>

\* lines 200-210: self.isolation_forest.fit(X), save_models, return True;
\* an exception of fit is logged and the call returns False
RetrainFit ==
    /\ Retrainer \in DOMAIN threads
    /\ threads[Retrainer].pc = "fit"
    /\ LET X == threads[Retrainer].X
       IN /\ forest_fit' = IF FitRaises(X) THEN forest_fit
                           ELSE [object |-> "fitted", rows |-> X]
          /\ threads' = [threads EXCEPT ![Retrainer].pc = "done",
                                        ![Retrainer].ret = ~FitRaises(X)]
    /\ UNCHANGED <<engine_vars, user_profiles, network_vars, alert_tasks,
                   eval_vars, ip_cache, feature_history, isolation_forest,
                   first_result, breaker, now, _event_queue, _stats,
                   queue_log, call>>

\* evaluations made while the retraining thread is about
MaxSwapCalls == 2

NextSwap ==
    \/ \E force \in BOOLEAN : RetrainEnter(force)
    \/ RetrainInstall
    \/ RetrainFit
    \/ /\ EnsembleCallsMade < MaxSwapCalls
       /\ \E is_eu \in BOOLEAN, has_consent \in BOOLEAN,
             answer \in ForestAnswers :
              EnsembleAnomalyDetection(is_eu, has_consent, answer)

SpecSwap == InitEns /\ [][NextSwap]_vars

\* ---- evaluations on several threads ----
\* Each worker thread is inside one evaluation at a time; the steps are the
\* statements of validate_ip_region_consistency / _cache_location and of
\* _add_to_history that read or write the shared cache and history. Nothing
\* in either class takes a lock.
Workers == {"w1", "w2"}
\* evaluations one worker makes
MaxWorkerEvals == 2
WorkerIps == {"ip1", "ip2", "ip3"}
\* the feature vector of the events each worker evaluates
WorkerFeatures == [w \in Workers |-> IF w = "w1" THEN FeatA ELSE FeatB]
WorkerLocation == [country_code |-> "EU", city |-> "", is_datacenter |-> FALSE]

worker_others ==
    <<engine_vars, user_profiles, network_vars, alert_tasks, eval_vars,
      isolation_forest, forest_fit, first_result, breaker, now, _event_queue,
      _stats, queue_log>>

WorkerPc(w) == IF w \in DOMAIN threads THEN threads[w].pc ELSE "idle"
WorkerEvals(w) == IF w \in DOMAIN threads THEN threads[w].evals ELSE 0

\* what the evaluations have appended so far, on top of which history
Scored == IF call.op = "evaluate_compliance" THEN call.scored ELSE <<>>
HistoryAtStart ==
    IF call.op = "evaluate_compliance" THEN call.before ELSE feature_history

\* geoip_validator.py lines 43-46: the evaluation of an event from
\* ip_address begins; a cached address skips the lookup and the insertion
WorkerBegin(w, ip_address, features) ==
    /\ WorkerPc(w) = "idle"
    /\ WorkerEvals(w) < MaxWorkerEvals
    /\ threads' =
           (w :> [pc |-> IF CacheHas(ip_cache, ip_address)
                         THEN "append" ELSE "cache_check",
                  evals |-> WorkerEvals(w) + 1,
                  ip_address |-> ip_address, features |-> features,
                  sliced |-> <<>>]) @@ threads
    /\ call' = [op |-> "evaluate_compliance", before |-> HistoryAtStart,
                scored |-> Scored]
    /\ UNCHANGED <<worker_others, ip_cache, feature_history>>

\* line 228: if len(self.ip_cache) >= self.max_cache_size
CacheCheck(w) ==
    /\ WorkerPc(w) = "cache_check"
    /\ threads' = [threads EXCEPT ![w].pc =
                      IF Len(ip_cache) >= max_cache_size
                      THEN "cache_evict" ELSE "cache_insert"]
    /\ UNCHANGED <<worker_others, ip_cache, feature_history, call>>

\* lines 230-231: oldest_key = next(iter(self.ip_cache)); del; on an empty
\* cache next raises, which validate_ip_region_consistency catches
CacheEvict(w) ==
    /\ WorkerPc(w) = "cache_evict"
    /\ IF ip_cache = <<>>
       THEN /\ ip_cache' = ip_cache
            /\ threads' = [threads EXCEPT ![w].pc = "append"]
       ELSE /\ ip_cache' = Tail(ip_cache)
            /\ threads' = [threads EXCEPT ![w].pc = "cache_insert"]
    /\ UNCHANGED <<worker_others, feature_history, call>>

\* line 233: self.ip_cache[ip_address] = location_data
CacheInsert(w) ==
    /\ WorkerPc(w) = "cache_insert"
    /\ LET entry == [ip |-> threads[w].ip_address, data |-> WorkerLocation]
       IN ip_cache' =
              IF CacheHas(ip_cache, entry.ip)
              THEN [i \in 1..Len(ip_cache) |->
                       IF ip_cache[i].ip = entry.ip THEN entry ELSE ip_cache[i]]
              ELSE Append(ip_cache, entry)
    /\ threads' = [threads EXCEPT ![w].pc = "append"]
    /\ UNCHANGED <<worker_others, feature_history, call>>

\* ml_models.py line 180: self.feature_history.append(features)
HistoryAppend(w) ==
    /\ WorkerPc(w) = "append"
    /\ feature_history' = Append(feature_history, threads[w].features)
    /\ call' = [call EXCEPT !.scored = Append(@, threads[w].features)]
    /\ threads' = [threads EXCEPT ![w].pc = "slice"]
    /\ UNCHANGED <<worker_others, ip_cache>>

\* lines 182-183, right-hand side: the length test and the slice
HistorySlice(w) ==
    /\ WorkerPc(w) = "slice"
    /\ threads' =
           IF Len(feature_history) > max_history
           THEN [threads EXCEPT
                    ![w].pc = "assign",
                    ![w].sliced = SubSeq(feature_history,
                                         Len(feature_history) - max_history + 1,
                                         Len(feature_history))]
           ELSE [threads EXCEPT ![w].pc = "idle"]
    /\ UNCHANGED <<worker_others, ip_cache, feature_history, call>>

\* line 183: self.feature_history = <the slice>
HistoryAssign(w) ==
    /\ WorkerPc(w) = "assign"
    /\ feature_history' = threads[w].sliced
    /\ threads' = [threads EXCEPT ![w].pc = "idle", ![w].sliced = <<>>]
    /\ UNCHANGED <<worker_others, ip_cache, call>>

NextWorkers ==
    \E w \in Workers :
        \/ \E ip_address \in WorkerIps :
               WorkerBegin(w, ip_address, WorkerFeatures[w])
        \/ CacheCheck(w)
        \/ CacheEvict(w)
        \/ CacheInsert(w)
        \/ HistoryAppend(w)
        \/ HistorySlice(w)
        \/ HistoryAssign(w)

SpecWorkers == InitEns /\ [][NextWorkers]_vars

\* ---- NetworkFraudDetector ----
\* the users, in the order in which their first event arrives
NetUsers == <<"u1", "u2", "u3", "u4", "u5", "u6">>
\* what an event carries: <<device_id, ip_address, payment_method>>
NetEvents == {<<"d1", "ip1", "p1">>, <<"d2", "ip1", None>>}
MinRingSizes == {2, 5}
RiskUsers == {"u1", "u6"}

\* the users seen so far
UsersSeen == {i \in 1..Len(NetUsers) : UserNode(NetUsers[i]) \in graph.nodes}

\* detect_fraud_rings(min_ring_size: int = 5)
default_min_ring_size == 5

\* NetworkFraudDetector.add_user_event (lines 29-63)
AddUserEvent(user_id, device_id, ip_address, payment_method) ==
    /\ graph' = GraphAfterAdd(graph, user_id, device_id, ip_address,
                              payment_method)
    /\ device_connections' =
           ConnectionsAdd(device_connections, device_id, user_id)
    /\ ip_connections' = ConnectionsAdd(ip_connections, ip_address, user_id)
    /\ payment_connections' =
           ConnectionsAdd(payment_connections, payment_method, user_id)
    /\ LET args == [user_id |-> user_id, device_id |-> device_id,
                    ip_address |-> ip_address,
                    payment_method |-> payment_method]
       IN call' = [op |-> "add_user_event", ret |-> None, args |-> args,
                   repeated |-> /\ call.op = "add_user_event"
                                /\ call.args = args]
    /\ UNCHANGED <<engine_vars, user_profiles, fraud_rings, alert_tasks,
                   eval_vars, detector_vars, first_result, client_vars>>

\* NetworkFraudDetector.detect_fraud_rings (lines 65-109)
DetectFraudRings(min_ring_size) ==
    LET rings == detect_fraud_rings(device_connections, ip_connections,
                                    payment_connections, min_ring_size)
    IN /\ fraud_rings' = RingUsers(rings)
       /\ call' = [op |-> "detect_fraud_rings", ret |-> rings,
                   args |-> [min_ring_size |-> min_ring_size]]
       /\ UNCHANGED <<engine_vars, user_profiles, graph, device_connections,
                      ip_connections, payment_connections, alert_tasks,
                      eval_vars, detector_vars, first_result, client_vars>>

\* NetworkFraudDetector.get_user_network_risk (lines 111-178)
GetUserNetworkRisk(user_id) ==
    /\ call' = [op |-> "get_user_network_risk",
                ret |-> get_user_network_risk(graph, fraud_rings, user_id, 2),
                args |-> [user_id |-> user_id]]
    /\ UNCHANGED <<engine_vars, user_profiles, network_vars, alert_tasks,
                   eval_vars, detector_vars, first_result, client_vars>>

\* an event of the latest user seen or of the next one
NextNet ==
    \/ \E i \in 1..Len(NetUsers), e \in NetEvents :
          /\ i \in {Cardinality(UsersSeen), Cardinality(UsersSeen) + 1}
          /\ AddUserEvent(NetUsers[i], e[1], e[2], e[3])
    \/ \E min_ring_size \in MinRingSizes : DetectFraudRings(min_ring_size)
    \/ \E user_id \in RiskUsers : GetUserNetworkRisk(user_id)

SpecNet == ClientInit /\ [][NextNet]_vars

\* NetworkFraudDetector.clear_old_connections (lines 197-201): a placeholder
\* whose body is pass
ClearOldConnections(days) ==
    /\ call' = [op |-> "clear_old_connections", ret |-> None,
                args |-> [days |-> days]]
    /\ UNCHANGED <<engine_vars, user_profiles, network_vars, alert_tasks,
                   eval_vars, detector_vars, first_result, client_vars>>

NextGraph ==
    \/ NextNet
    \/ \E days \in {1, 30} : ClearOldConnections(days)

SpecGraph == ClientInit /\ [][NextGraph]_vars

\* ---- evaluate_compliance called twice with the same event ----
\* events of one user and device without a timestamp, so that the section
\* reading the user's events of the last hour is skipped
TwiceEvents ==
    {ev \in Events :
        /\ ev.user_id = "u1" /\ ev.device_id = "d1"
        /\ ev.timestamp = None /\ ev.event_type = "bulk_export"
        /\ ev.subscription_plan = "basic" /\ ev.absent = {}}

\* the components as earlier evaluations left them
InitTwice ==
    /\ time_of_day_stats = EmptyDict /\ region_stats = EmptyDict
    /\ user_segment_stats = EmptyDict
    /\ user_profiles = EmptyDict
    /\ \E net \in InitialNetworks :
        /\ graph = net.graph
        /\ device_connections = net.devs /\ ip_connections = net.ips
        /\ payment_connections = net.pays
        /\ fraud_rings = net.rings
    /\ alert_tasks = <<>>
    /\ ip_cache = <<>>
    /\ feature_history \in Histories \cup {<<>>}
    /\ isolation_forest = EmptyDict /\ forest_fit = NoForest
    /\ first_result = <<>>
    /\ ClientIdle
    /\ EvalIdle
    /\ call = NoCall

\* the first call has returned (line 353) and the caller calls again with
\* the same event, the same session and in the same hour
Again ==
    /\ pc = "done" /\ first_result = <<>>
    /\ first_result' = <<result>>
    /\ pc' = "geoip"
    /\ score' = 0 /\ flags' = <<>> /\ detailed_findings' = {}
    /\ user_segment' = None /\ dynamic_threshold' = None
    /\ ml_result' = None /\ risk_level' = None /\ result' = None
    /\ stage_log' = [st \in Stages |-> NotRun]
    /\ UNCHANGED <<event, db, utc_hour, escaped>>
    /\ UNCHANGED <<engine_vars, user_profiles, network_vars, alert_tasks, call>>
    /\ UNCHANGED <<detector_vars, client_vars>>

\* the database holds the same rows during both calls: the second call
\* derives the profile the first one stored
NextTwice ==
    \/ /\ pc = "idle"
       /\ \E e \in TwiceEvents, session \in BOOLEAN, hour \in Hours :
              Receive(e, session, hour)
    \/ GeoIPStage
    \/ IdentifiersStage
    \/ EventTypeStage
    \/ ConsentStage
    \/ /\ SegmentationStage
       /\ first_result # <<>> =>
             /\ UNCHANGED user_profiles
             /\ user_segment' # None
                    <=> user_id_of(event) \in DOMAIN user_profiles
    \/ ThresholdStage
    \/ NetworkStage
    \/ MLAnomalyStage
    \/ ViolationPredictionStage
    \/ ComplianceCheckStage
    \/ SubscriptionStage
    \/ TimeWindowStage
    \/ RiskLevelStage
    \/ RecordStage
    \/ Again

SpecTwice == InitTwice /\ [][NextTwice]_vars

\* ---- CircuitBreaker (api_gateway.py) ----
FailureThresholds == {1, 3}
RecoveryTimeouts  == {0, 2}
SuccessThresholds == {1, 2}
\* the clock stops here, and so does the failure counter
MaxTime     == 5
MaxFailures == 5

\* lines 281-289
record_success(b) ==
    IF b.state = "HALF_OPEN"
    THEN IF b.successes + 1 >= b.success_threshold
         THEN [b EXCEPT !.state = "CLOSED", !.failures = 0, !.successes = 0]
         ELSE [b EXCEPT !.successes = b.successes + 1]
    ELSE b

\* the breaker opens one failure late
record_failure_late(b, t) ==
    LET c == [b EXCEPT !.failures = b.failures + 1,
                       !.last_failure_time = <<t>>]
    IN IF c.failures > c.failure_threshold
       THEN IF c.state = "CLOSED" THEN [c EXCEPT !.state = "OPEN"]
            ELSE IF c.state = "HALF_OPEN"
            THEN [c EXCEPT !.state = "OPEN", !.successes = 0]
            ELSE c
       ELSE c

\* lines 291-303, at time t
record_failure(b, t) ==
    LET c == [b EXCEPT !.failures = b.failures + 1,
                       !.last_failure_time = <<t>>]
    IN IF c.failures >= c.failure_threshold
       THEN IF c.state = "CLOSED" THEN [c EXCEPT !.state = "OPEN"]
            ELSE IF c.state = "HALF_OPEN"
            THEN [c EXCEPT !.state = "OPEN", !.successes = 0]
            ELSE c
       ELSE c

\* lines 305-321, at time t: the answer and the breaker it leaves
can_attempt(b, t) ==
    IF b.state = "CLOSED" THEN [ret |-> TRUE, breaker |-> b]
    ELSE IF b.state = "OPEN"
    THEN IF /\ b.last_failure_time # <<>>
            /\ t - b.last_failure_time[1] >= b.recovery_timeout
         THEN [ret |-> TRUE,
               breaker |-> [b EXCEPT !.state = "HALF_OPEN", !.failures = 0]]
         ELSE [ret |-> FALSE, breaker |-> b]
    ELSE [ret |-> TRUE, breaker |-> b]

RecordSuccess ==
    /\ breaker' = record_success(breaker)
    /\ call' = [op |-> "record_success", before |-> breaker, at |-> now]
    /\ UNCHANGED <<engine_vars, user_profiles, network_vars, alert_tasks,
                   eval_vars, detector_vars, first_result, now,
                   _event_queue, _stats, queue_log, threads>>

RecordFailure ==
    /\ breaker.failures < MaxFailures
    /\ breaker' = record_failure(breaker, now)
    /\ call' = [op |-> "record_failure", before |-> breaker, at |-> now]
    /\ UNCHANGED <<engine_vars, user_profiles, network_vars, alert_tasks,
                   eval_vars, detector_vars, first_result, now,
                   _event_queue, _stats, queue_log, threads>>

CanAttempt ==
    /\ breaker' = can_attempt(breaker, now).breaker
    /\ call' = [op |-> "can_attempt", before |-> breaker, at |-> now,
                ret |-> can_attempt(breaker, now).ret]
    /\ UNCHANGED <<engine_vars, user_profiles, network_vars, alert_tasks,
                   eval_vars, detector_vars, first_result, now,
                   _event_queue, _stats, queue_log, threads>>

\* a second passes
Tick ==
    /\ now < MaxTime
    /\ now' = now + 1
    /\ UNCHANGED <<engine_vars, user_profiles, network_vars, alert_tasks,
                   eval_vars, detector_vars, first_result, breaker, call,
                   _event_queue, _stats, queue_log, threads>>

InitBreaker ==
    /\ time_of_day_stats = EmptyDict /\ region_stats = EmptyDict
    /\ user_segment_stats = EmptyDict
    /\ user_profiles = EmptyDict
    /\ NetworkEmpty
    /\ alert_tasks = <<>>
    /\ ip_cache = <<>> /\ feature_history = <<>>
    /\ isolation_forest = EmptyDict /\ forest_fit = NoForest
    /\ first_result = None
    /\ EvalIdle
    /\ call = NoCall
    /\ \E f \in FailureThresholds, r \in RecoveryTimeouts,
          su \in SuccessThresholds : breaker = NewBreaker(f, r, su)
    /\ now = 0
    /\ _event_queue = <<>> /\ _stats = NewStats
    /\ queue_log = [enqueued |-> <<>>, returned |-> <<>>]
    /\ threads = <<>>

NextBreaker ==
    \/ RecordSuccess
    \/ RecordFailure
    \/ CanAttempt
    \/ Tick

SpecBreaker == InitBreaker /\ [][NextBreaker]_vars

\* ---- the local event queue (queue.py) ----
QueueEvents == {[event_id |-> "e1"], [event_id |-> "e2"]}
MaxEnqueued == 4

\* lines 134-138: the queue and the statistics after enqueue_event(ev)
enqueue_event(queue, stats, ev) ==
    LET q == Append(queue, ev)
    IN [queue |-> q,
        stats |-> [stats EXCEPT !.enqueued = stats.enqueued + 1,
                                !.queue_size = Len(q)]]

\* the newest event is taken
dequeue_event_newest(queue, stats) ==
    IF queue # <<>>
    THEN LET q == SubSeq(queue, 1, Len(queue) - 1)
         IN [ret |-> <<queue[Len(queue)]>>, queue |-> q,
             stats |-> [stats EXCEPT !.queue_size = Len(q)]]
    ELSE [ret |-> <<>>, queue |-> queue, stats |-> stats]

\* lines 141-147; the return value None is <<>>, an event ev is <<ev>>
dequeue_event(queue, stats) ==
    IF queue # <<>>
    THEN LET q == Tail(queue)
         IN [ret |-> <<Head(queue)>>, queue |-> q,
             stats |-> [stats EXCEPT !.queue_size = Len(q)]]
    ELSE [ret |-> <<>>, queue |-> queue, stats |-> stats]

\* lines 150-155
drain(queue, stats) ==
    [ret |-> queue, queue |-> <<>>,
     stats |-> [stats EXCEPT !.queue_size = 0]]

EnqueueEvent(ev) ==
    /\ Len(queue_log.enqueued) < MaxEnqueued
    /\ _event_queue' = enqueue_event(_event_queue, _stats, ev).queue
    /\ _stats' = enqueue_event(_event_queue, _stats, ev).stats
    /\ queue_log' = [queue_log EXCEPT !.enqueued = Append(@, ev)]
    /\ call' = [op |-> "enqueue_event", before |-> _event_queue, ret |-> <<>>]
    /\ UNCHANGED <<engine_vars, user_profiles, network_vars, alert_tasks,
                   eval_vars, detector_vars, first_result, breaker, now,
                   threads>>

DequeueEvent ==
    /\ _event_queue' = dequeue_event(_event_queue, _stats).queue
    /\ _stats' = dequeue_event(_event_queue, _stats).stats
    /\ queue_log' = [queue_log EXCEPT
           !.returned = @ \o dequeue_event(_event_queue, _stats).ret]
    /\ call' = [op |-> "dequeue_event", before |-> _event_queue,
                ret |-> dequeue_event(_event_queue, _stats).ret]
    /\ UNCHANGED <<engine_vars, user_profiles, network_vars, alert_tasks,
                   eval_vars, detector_vars, first_result, breaker, now,
                   threads>>

Drain ==
    /\ _event_queue' = drain(_event_queue, _stats).queue
    /\ _stats' = drain(_event_queue, _stats).stats
    /\ queue_log' = [queue_log EXCEPT
           !.returned = @ \o drain(_event_queue, _stats).ret]
    /\ call' = [op |-> "drain", before |-> _event_queue,
                ret |-> drain(_event_queue, _stats).ret]
    /\ UNCHANGED <<engine_vars, user_profiles, network_vars, alert_tasks,
                   eval_vars, detector_vars, first_result, breaker, now,
                   threads>>

\* lines 158-160
StatsSnapshot ==
    /\ call' = [op |-> "stats_snapshot", before |-> _event_queue,
                ret |-> _stats]
    /\ UNCHANGED <<engine_vars, user_profiles, network_vars, alert_tasks,
                   eval_vars, detector_vars, first_result, client_vars>>

NextQueue ==
    \/ \E ev \in QueueEvents : EnqueueEvent(ev)
    \/ DequeueEvent
    \/ Drain
    \/ StatsSnapshot

SpecQueue == ClientInit /\ [][NextQueue]_vars

(***************************************************************************)
(* Properties                                                              *)
(***************************************************************************)
PcOrder ==
    <<"idle", "geoip", "identifiers", "event_type", "consent",
      "segmentation", "threshold", "network", "ml_anomaly",
      "violation_prediction", "compliance_check", "subscription",
      "time_window", "risk_level", "record", "done">>

PcRank(p) == CHOOSE i \in 1..Len(PcOrder) : PcOrder[i] = p

\* the section whose program counter value is p has been left
Past(p) == pc \in {PcOrder[i] : i \in 1..Len(PcOrder)} /\ PcRank(pc) > PcRank(p)

HasFlag(f) == \E i \in 1..Len(flags) : flags[i] = f

\* C1: whenever a section of evaluate_compliance raises, that section has
\* added nothing to the score and no flag, and the evaluation goes on
C1_FailedStageContributesNothing ==
    /\ escaped = FALSE
    /\ \A st \in Stages :
        stage_log[st].raised =>
            stage_log[st].delta = 0 /\ stage_log[st].flags = <<>>

\* C2: evaluate_compliance returns an assessment with score, risk_level,
\* flags and detailed_findings whatever raised on the way, with or without a
\* database session: no exception reaches the caller and no section blocks
C2_AlwaysReturnsAssessment ==
    /\ escaped = FALSE
    /\ pc \in {PcOrder[i] : i \in 1..Len(PcOrder)}
    /\ pc # "done" => ENABLED Next
    /\ pc = "done" =>
        /\ DOMAIN result = {"score", "risk_level", "flags",
                            "detailed_findings"}
        /\ result.risk_level \in {"low", "medium", "high"}
        /\ result.flags = flags
        /\ result.score = Round2(score)

\* an evaluation with a session returned although four of its sections raised
C2_Witness ==
    /\ pc = "done" /\ db
    /\ stage_log["threshold"].raised /\ stage_log["ml_anomaly"].raised
    /\ stage_log["violation_prediction"].raised /\ stage_log["record"].raised
    /\ result.risk_level = "high"

\* C3: the risk level is set only by the risk-level section, from the final
\* score and the threshold: high iff score >= threshold, medium iff
\* max(0, threshold - 3) <= score < threshold, low otherwise
C3_LevelFromScoreAndThreshold ==
    IF pc \in {"record", "done"}
    THEN /\ risk_level \in {"low", "medium", "high"}
         /\ (risk_level = "high") <=> (score >= dynamic_threshold)
         /\ (risk_level = "medium") <=>
                (/\ Max(0, dynamic_threshold - 3000) <= score
                 /\ score < dynamic_threshold)
         /\ (risk_level = "low") <=>
                (score < Max(0, dynamic_threshold - 3000))
         /\ result.risk_level = risk_level
         /\ (risk_level = "high") <=> (result.score >= dynamic_threshold)
    ELSE risk_level = None

\* a score equal to the threshold is high; the boundary case
C3_Witness ==
    /\ pc = "done"
    /\ score = dynamic_threshold
    /\ risk_level = "high"

\* C4: the running score is never negative: every section but the
\* subscription adjustment adds a non-negative amount, the premium discount
\* is floored at 0, and the returned score is >= 0
C4_ScoreNeverNegative ==
    /\ score >= 0
    /\ \A st \in Stages \ {"subscription"} : stage_log[st].delta >= 0
    /\ stage_log["subscription"].delta >= -1000
    /\ pc = "done" => result.score >= 0

\* a premium event that reached the subscription section with score 0
C4_Witness ==
    /\ pc = "done"
    /\ subscription_plan_of(event) = "premium"
    /\ stage_log["subscription"].entered
    /\ stage_log["subscription"].delta = 0
    /\ result.score = 0

\* is_eu true and has_consent present and false
EuWithoutConsent(e) ==
    /\ e.is_eu
    /\ "has_consent" \notin e.absent
    /\ ~e.has_consent

\* C5: an event with is_eu true and has_consent false gets the flag
\* eu_privacy_violation and exactly 5 from the consent rule; every other
\* event, also one without a consent field, gets neither
C5_ConsentRuleExact ==
    Past("consent") =>
        /\ HasFlag("eu_privacy_violation") <=> EuWithoutConsent(event)
        /\ stage_log["consent"].delta =
               IF EuWithoutConsent(event) THEN 5000 ELSE 0
        /\ stage_log["consent"].flags =
               IF EuWithoutConsent(event) THEN <<"eu_privacy_violation">>
                                          ELSE <<>>

C5_Witness ==
    /\ pc = "done"
    /\ EuWithoutConsent(event)
    /\ HasFlag("eu_privacy_violation")
    /\ stage_log["consent"].delta = 5000

\* C6: the threshold the score is compared against is the value the
\* Adaptive Threshold Engine returns for the event's segment, hour and region
C6_ThresholdIsEngineValue ==
    Past("threshold") =>
        dynamic_threshold =
            get_dynamic_risk_threshold(region_stats, user_segment, utc_hour,
                                       region_of(event))

\* the score was appended to the accumulators of hour, region and segment
Recorded ==
    /\ utc_hour \in DOMAIN time_of_day_stats
    /\ region_of(event) \in DOMAIN region_stats
    /\ user_segment \in DOMAIN user_segment_stats
    /\ \E i \in 1..Len(region_stats[region_of(event)].scores) :
           region_stats[region_of(event)].scores[i] = score

\* one alert with the score, the flags and the user id was handed over
Alerted ==
    /\ Len(alert_tasks) = 1
    /\ alert_tasks[1].score = score
    /\ alert_tasks[1].flags = flags
    /\ alert_tasks[1].user_id = user_id_of(event)

\* C7: an evaluation that ends high has recorded the score in the threshold
\* engine's accumulators and handed one alert to the alerting system; one
\* that ends low or medium has done neither
C7_HighIsRecordedAndAlerted ==
    pc = "done" =>
        IF risk_level = "high"
        THEN Recorded /\ Alerted
        ELSE /\ DOMAIN time_of_day_stats = {} /\ DOMAIN region_stats = {}
             /\ DOMAIN user_segment_stats = {} /\ alert_tasks = <<>>

\* C8: get_dynamic_risk_threshold returns a value in [4.0, 12.0] for every
\* segment, hour and region after any sequence of record_event calls
C8_ThresholdInRange ==
    call.op = "get_dynamic_risk_threshold" =>
        call.ret >= 4000 /\ call.ret <= 12000

\* recorded violations pushed the unclamped value below 4.0
C8_Witness ==
    /\ call.op = "get_dynamic_risk_threshold"
    /\ RecordsMade > 0
    /\ final_threshold(region_stats, call.args.user_segment, call.args.hour,
                       call.args.region) < 4000
    /\ call.ret = 4000

SegmentOrder ==
    <<"power_user", "new_user", "suspicious_user", "dormant_user",
      "inactive_user", "normal_user">>

\* the criteria of a segment, each on its own
Meets(seg, p) ==
    CASE seg = "power_user" ->
            /\ p.event_count_30d > 500 /\ p.violation_count_30d = 0
            /\ p.days_since_signup > 180
      [] seg = "new_user" ->
            p.days_since_signup < 30 /\ p.event_count_30d < 50
      [] seg = "suspicious_user" ->
            \/ p.violation_count_30d > 5
            \/ 4 * p.event_count_7d > 7 * p.event_count_30d
      [] seg = "dormant_user" ->
            p.last_activity_days_ago > 90 /\ p.event_count_30d = 0
      [] seg = "inactive_user" ->
            /\ p.last_activity_days_ago > 30
            /\ 10 < p.event_count_30d /\ p.event_count_30d < 100
      [] seg = "normal_user" -> TRUE

\* C9: classify_user returns exactly one of the six segments, the first in
\* the order power, new, suspicious, dormant, inactive, normal whose criteria
\* the counters meet, whatever profiles are stored and whatever was called
\* before
C9_FirstMatchWins ==
    call.op \in {"classify_user", "update_user_profile"} =>
        \E i \in 1..Len(SegmentOrder) :
            /\ call.ret = SegmentOrder[i]
            /\ Meets(SegmentOrder[i], call.args)
            /\ \A j \in 1..(i - 1) : ~Meets(SegmentOrder[j], call.args)

\* new_user and suspicious_user criteria both met, with profiles stored
C9_Witness ==
    /\ call.op = "classify_user"
    /\ Meets("new_user", call.args) /\ Meets("suspicious_user", call.args)
    /\ call.ret = "new_user"
    /\ DOMAIN user_profiles # {}

\* C10: evaluate_event_compliance reports the violations of one check per
\* regulation applicable to the region, is compliant iff there is none, and
\* its risk score is min(1.0, 0.5 x number of violations)
C10_ComplianceResult ==
    call.op = "evaluate_event_compliance" =>
        LET a      == call.args
            regs   == get_regulations_for_region(a.region)
            action == _map_event_to_action(a.event_type)
            broken == {i \in 1..Len(regs) :
                         check_violation(action, regs[i],
                                         a.event_details).violation}
        IN /\ call.ret.applicable_regulations = regs
           /\ Len(call.ret.violations) = Cardinality(broken)
           /\ \A i \in 1..Len(call.ret.violations) :
                /\ call.ret.violations[i].violation
                /\ \E j \in broken :
                       call.ret.violations[i].regulation = regs[j]
           /\ call.ret.compliant <=> (Len(call.ret.violations) = 0)
           /\ call.ret.compliance_risk_score =
                  Min(1000, 500 * Len(call.ret.violations))

C10_Witness ==
    /\ call.op = "evaluate_event_compliance"
    /\ ~call.ret.compliant
    /\ Len(call.ret.violations) = 1
    /\ call.ret.compliance_risk_score = 500

\* the event's region has no entry in REGION_REGULATIONS
RegionUnmapped == region_of(event) \notin DOMAIN REGION_REGULATIONS

\* C11: for a region with no configured regulation
\* get_regulations_for_region returns the empty list,
\* evaluate_event_compliance is compliant with no violations and risk score
\* 0 for every event type and details, and the orchestrator's compliance
\* section adds no score and no multi_country_violation flag
C11_UnmappedRegionCompliant ==
    /\ pc = "compliance_check" /\ RegionUnmapped =>
        /\ get_regulations_for_region(region_of(event)) = <<>>
        /\ \A t \in RegEventTypes, det \in EventDetails :
              LET res == evaluate_event_compliance("u1", t, region_of(event),
                                                   det)
              IN /\ res.compliant
                 /\ res.violations = <<>>
                 /\ res.compliance_risk_score = 0
                 /\ res.applicable_regulations = <<>>
    /\ Past("compliance_check") /\ RegionUnmapped =>
        /\ stage_log["compliance_check"].entered
        /\ ~stage_log["compliance_check"].raised
        /\ stage_log["compliance_check"].delta = 0
        /\ ~HasFlag("multi_country_violation")

\* a withdrawn consent in an unmapped region went through the section
C11_Witness ==
    /\ pc = "done"
    /\ RegionUnmapped
    /\ event_type_of(event) = "user_consent_change"
    /\ ~has_consent_of(event)
    /\ stage_log["compliance_check"].entered
    /\ ~HasFlag("multi_country_violation")


\* the country the event's IP address resolved to ("" when there is none)
ResolvedCountry ==
    IF Truthy(ip_address_of(event)) /\ CacheHas(ip_cache, ip_address_of(event))
    THEN DictGet(CacheGet(ip_cache, ip_address_of(event)), "country_code", "")
    ELSE ""

\* the assessment carries a geo-mismatch flag
GeoMismatchFlagged ==
    HasFlag("ip_region_mismatch") \/ HasFlag("geoip_region_mismatch")

\* the event of the end-to-end scenario
BulkExportScenario ==
    /\ region_of(event) = "EU" /\ is_eu_of(event)
    /\ "has_consent" \notin event.absent /\ ~has_consent_of(event)
    /\ event_type_of(event) = "bulk_export"
    /\ ResolvedCountry \notin {"", "EU"}

\* C12: an event with region EU, is_eu true, has_consent false, event type
\* bulk_export and an IP address resolving to a non-EU country is assessed
\* with a geo-mismatch flag, eu_privacy_violation and a regulation-violation
\* flag, a score of at least 10 and the level high under the threshold 8.0
C12_BulkExportScenarioIsHigh ==
    pc = "done" /\ BulkExportScenario =>
        /\ GeoMismatchFlagged
        /\ HasFlag("eu_privacy_violation")
        /\ HasFlag("multi_country_violation")
        /\ result.score >= 10000
        /\ dynamic_threshold = 8000 => result.risk_level = "high"

\* C13: when the IP address resolves to a country other than the claimed
\* region, the assessment carries the geo-mismatch flag and the GeoIP section
\* has raised the score by at least 3
C13_MismatchFlaggedAndScored ==
    /\ Past("geoip")
    /\ Truthy(region_of(event))
    /\ ResolvedCountry \notin {"", Upper(region_of(event))}
    => /\ GeoMismatchFlagged
       /\ stage_log["geoip"].delta >= 3000

\* C14: a call of validate_ip_region_consistency with the address and region
\* of an earlier call, the address not evicted since, returns what the
\* earlier call returned and is answered from the cache: the location source
\* is not consulted and the cache stays as it is, whatever the first lookup
\* answered
C14_SecondCallFromCache ==
    [][call'.op = "validate_ip_region_consistency"
       /\ <<call'.args.ip_address, call'.args.claimed_region>>
              \in DOMAIN first_result
       => /\ ~call'.consulted
          /\ call'.ret = first_result[<<call'.args.ip_address,
                                        call'.args.claimed_region>>]
          /\ ip_cache' = ip_cache]_vars

\* a second call for an address whose first lookup failed, made after
\* another address was looked up, and one whose first call hit the except
\* branch
C14_Witness ==
    /\ call.op = "validate_ip_region_consistency"
    /\ ~call.consulted
    /\ Len(ip_cache) = max_cache_size
    /\ <<call.args.ip_address, call.args.claimed_region>> \in DOMAIN first_result
    /\ \/ /\ CacheGet(ip_cache, call.args.ip_address) = <<>>
          /\ ip_cache[1].ip = call.args.ip_address
       \/ call.ret.flags = <<"geoip_lookup_failed">>

\* C15: when the location lookup fails, validate_ip_region_consistency
\* returns the flag geoip_lookup_failed with score adjustment 0
C15_LookupFailureIsSoftFlag ==
    /\ call.op = "validate_ip_region_consistency"
    /\ call.consulted /\ call.looked_up = <<>>
    => /\ call.ret.flags = <<"geoip_lookup_failed">>
       /\ call.ret.score_adjustment = 0

\* the movement of a detect_impossible_travel call: from a known previous
\* location to the resolved current one
TravelKnown ==
    /\ call.args.last_location # <<>>
    /\ call.looked_up # <<>>
TravelElapsed ==
    call.args.current_timestamp
        - DictGet(call.args.last_location, "timestamp", 0)
TravelFaster(limit) ==
    /\ TravelKnown /\ TravelElapsed > 0
    /\ SpeedExceeds(distance_km(call.args.last_location, call.looked_up),
                    TravelElapsed, limit)

\* C16: detect_impossible_travel flags the movement iff the elapsed time is
\* positive and distance / elapsed time exceeds 1000 km/h, with severity
\* critical iff the speed exceeds 5000 km/h and high otherwise
C16_ImpossibleTravelBySpeed ==
    call.op = "detect_impossible_travel" =>
        /\ call.ret.impossible_travel <=> TravelFaster(1000)
        /\ call.ret.impossible_travel =>
              call.ret.risk = IF TravelFaster(5000) THEN "critical" ELSE "high"

\* C17: ensemble_anomaly_detection reports an anomaly iff the isolation
\* forest or the local outlier factor flags the event, and its score is the
\* mean (in whole thousandths) of the two component scores, neither of which
\* is negative
C17_EnsembleVoteAndMean ==
    call.op = "ensemble_anomaly_detection" =>
        LET forest == call.detectors.isolation_forest
            lof    == call.detectors.lof
        IN /\ call.ret.is_anomaly <=> (forest[1] \/ lof[1])
           /\ forest[2] >= 0 /\ lof[2] >= 0
           /\ call.ret.ensemble_score = (forest[2] + lof[2]) \div 2
           /\ call.ret.ensemble_score >= Min(forest[2], lof[2])
           /\ call.ret.ensemble_score <= Max(forest[2], lof[2])

\* the local outlier factor alone flags the event
C17_Witness ==
    /\ call.op = "ensemble_anomaly_detection"
    /\ call.detectors.lof[1] /\ ~call.detectors.isolation_forest[1]
    /\ call.detectors.lof[2] > 0 /\ call.detectors.isolation_forest[2] > 0
    /\ call.ret.is_anomaly

\* the users whose events carried the device, address or payment instrument:
\* the user nodes the graph joins to its node
SharedBy(kind, id) ==
    {n[2] : n \in {x \in Neighbors(graph, <<kind, id>>) : x[1] = "user"}}

RingKinds ==
    [device_sharing |-> "device", ip_sharing |-> "ip",
     payment_sharing |-> "payment"]

\* the identifiers of one kind seen in events
IdsSeen(kind) == {n[2] : n \in {x \in graph.nodes : x[1] = kind}}

\* C18: detect_fraud_rings(m) returns exactly one ring for each device, IP
\* address and payment instrument shared by at least m distinct users and
\* none for any other; the ring holds all of these users and its risk score
\* is min(1.0, (size - m) / 10)
C18_OneRingPerSharedIdentifier ==
    call.op = "detect_fraud_rings" =>
        LET m     == call.args.min_ring_size
            rings == call.ret
        IN /\ \A t \in DOMAIN RingKinds : \A id \in IdsSeen(RingKinds[t]) :
                Cardinality({i \in 1..Len(rings) :
                                /\ rings[i].ring_type = t
                                /\ rings[i].connection = id})
                  = IF Cardinality(SharedBy(RingKinds[t], id)) >= m
                    THEN 1 ELSE 0
           /\ \A i \in 1..Len(rings) :
                /\ rings[i].ring_type \in DOMAIN RingKinds
                /\ rings[i].connection
                       \in IdsSeen(RingKinds[rings[i].ring_type])
                /\ rings[i].users =
                       SharedBy(RingKinds[rings[i].ring_type],
                                rings[i].connection)
                /\ rings[i].size = Cardinality(rings[i].users)
                /\ rings[i].risk_score =
                       Min(1000, (rings[i].size - m) * 100)

\* six users sharing one device, one address and one payment instrument:
\* three rings of six users with score 0.1 for m = 5
C18_Witness ==
    /\ call.op = "detect_fraud_rings" /\ call.args.min_ring_size = 5
    /\ Len(call.ret) = 3
    /\ {call.ret[i].ring_type : i \in 1..3}
           = {"device_sharing", "ip_sharing", "payment_sharing"}
    /\ \A i \in 1..3 :
          /\ call.ret[i].size = 6
          /\ call.ret[i].risk_score = 100
          /\ call.ret[i].users = {NetUsers[k] : k \in 1..6}

\* C19: detect_fraud_rings and get_user_network_risk are read-only: a call
\* of either changes no state of the detector, and get_user_network_risk
\* answers for every user what it would have answered before the call
C19_QueriesAreReadOnly ==
    [][call'.op \in {"detect_fraud_rings", "get_user_network_risk"}
       => /\ UNCHANGED network_vars
          /\ \A u \in RiskUsers :
                get_user_network_risk(graph', fraud_rings', u, 2)
                    = get_user_network_risk(graph, fraud_rings, u, 2)]_vars

C21_BreakerOpensAndRefuses ==
    /\ breaker.last_failure_time = <<>> => breaker.state = "CLOSED"
    /\ breaker.failures >= breaker.failure_threshold => breaker.state = "OPEN"
    /\ call.op = "record_failure"
       /\ call.before.last_failure_time = <<>>
       /\ breaker.failures = breaker.failure_threshold
       => breaker.state = "OPEN"
    /\ call.op = "can_attempt" /\ call.before.state = "CLOSED" => call.ret
    /\ call.op = "can_attempt" /\ call.before.state = "OPEN"
       /\ call.at - call.before.last_failure_time[1]
              < call.before.recovery_timeout
       => ~call.ret /\ breaker.state = "OPEN"

\* an open breaker refused an attempt a second after its third failure
C21_Witness ==
    /\ call.op = "can_attempt" /\ ~call.ret
    /\ breaker.state = "OPEN" /\ breaker.failure_threshold = 3
    /\ breaker.failures = 3
    /\ call.at = breaker.last_failure_time[1] + 1

\* C22: the local queue is first-in first-out and loses or duplicates
\* nothing: the events returned so far followed by the events still queued
\* are the events enqueued, in enqueue order; dequeue_event returns None
\* exactly when the queue is empty; the queue_size statistic is the number
\* of queued events after every call
C22_QueueIsFifo ==
    /\ queue_log.returned \o _event_queue = queue_log.enqueued
    /\ call.op = "dequeue_event" => (call.ret = <<>> <=> call.before = <<>>)
    /\ call.op = "dequeue_event" /\ call.before # <<>> =>
          call.ret = <<Head(call.before)>>
    /\ call.op = "drain" => call.ret = call.before /\ _event_queue = <<>>
    /\ _stats.queue_size = Len(_event_queue)
    /\ _stats.enqueued = Len(queue_log.enqueued)
    /\ call.op = "stats_snapshot" => call.ret.queue_size = Len(_event_queue)

\* two different events were returned, two different events are still
\* queued, and the statistics are read
C22_Witness ==
    /\ Len(queue_log.returned) = 2
    /\ queue_log.returned[1] # queue_log.returned[2]
    /\ Len(_event_queue) = 2 /\ _event_queue[1] # _event_queue[2]
    /\ call.op = "stats_snapshot"

\* C23: the fixed contributions are +2 and missing_user_id for a missing
\* user id, +2 and missing_device_id for a missing device id, +3 for the
\* event types error, login_failed and token_refresh_failed, -1 floored at 0
\* for the subscription tier premium, +1 for basic, and nothing for any
\* other or absent tier
C23_FixedContributions ==
    /\ Past("identifiers") =>
        LET no_user   == ~Truthy(user_id_of(event))
            no_device == ~Truthy(device_id_of(event))
        IN /\ stage_log["identifiers"].delta =
                 (IF no_user THEN 2000 ELSE 0) + (IF no_device THEN 2000 ELSE 0)
           /\ HasFlag("missing_user_id") <=> no_user
           /\ HasFlag("missing_device_id") <=> no_device
    /\ Past("event_type") =>
        stage_log["event_type"].delta =
            IF event_type_of(event)
                   \in {"error", "login_failed", "token_refresh_failed"}
            THEN 3000 ELSE 0
    /\ pc = "time_window" =>
        LET delta  == stage_log["subscription"].delta
            before == score - delta
            absent == "subscription_plan" \in event.absent
        IN delta = IF absent THEN 0
                   ELSE IF event.subscription_plan = "premium"
                   THEN Max(0, before - 1000) - before
                   ELSE IF event.subscription_plan = "basic" THEN 1000
                   ELSE 0

\* C23 as amended: the same contributions, except that an event dict without
\* the key subscription_plan is treated as tier basic and gets +1
C23_FixedContributionsAbsentIsBasic ==
    /\ Past("identifiers") =>
        LET no_user   == ~Truthy(user_id_of(event))
            no_device == ~Truthy(device_id_of(event))
        IN /\ stage_log["identifiers"].delta =
                 (IF no_user THEN 2000 ELSE 0) + (IF no_device THEN 2000 ELSE 0)
           /\ HasFlag("missing_user_id") <=> no_user
           /\ HasFlag("missing_device_id") <=> no_device
    /\ Past("event_type") =>
        /\ stage_log["event_type"].delta =
              IF event_type_of(event)
                     \in {"error", "login_failed", "token_refresh_failed"}
              THEN 3000 ELSE 0
        /\ HasFlag("auth_or_playback_error") <=>
              stage_log["event_type"].delta = 3000
    /\ pc = "time_window" =>
        LET delta  == stage_log["subscription"].delta
            before == score - delta
            absent == "subscription_plan" \in event.absent
        IN delta = IF absent THEN 1000
                   ELSE IF event.subscription_plan = "premium"
                   THEN Max(0, before - 1000) - before
                   ELSE IF event.subscription_plan = "basic" THEN 1000
                   ELSE 0

\* an event without a subscription tier and without user and device ids
C23_Witness ==
    /\ pc = "time_window"
    /\ "subscription_plan" \in event.absent
    /\ stage_log["subscription"].delta = 1000
    /\ stage_log["identifiers"].delta = 4000
    /\ stage_log["event_type"].delta = 3000

\* the region adjustment as a test of rates: v violations among n events
RegionAdjOf(v, n) ==
    IF 10 * v > 2 * n THEN -20 ELSE IF 10 * v > n THEN -10 ELSE 0

RegionCounts(rstats, region) ==
    IF region \in DOMAIN rstats
    THEN [v |-> Len(rstats[region].violations), n |-> Len(rstats[region].scores)]
    ELSE [v |-> 0, n |-> 0]

C24_WitnessBand ==
    /\ call.op = "get_dynamic_risk_threshold"
    /\ RegionCounts(region_stats, call.args.region).v = 1
    /\ RegionCounts(region_stats, call.args.region).n >= 5
\* C25: every segment the classifier produces gets its own adjustment from
\* the threshold engine: -0.2 for power_user, +0.2 for new_user, +0.3 for
\* suspicious_user, so a user classified suspicious never gets the segment
\* adjustment of a normal user
C25_ClassifiedSegmentIsAdjusted ==
    call.op \in {"classify_user", "update_user_profile"} =>
        /\ call.ret = "power_user" => _get_segment_adjustment(call.ret) = -20
        /\ call.ret = "new_user" => _get_segment_adjustment(call.ret) = 20
        /\ call.ret = "suspicious_user" =>
               /\ _get_segment_adjustment(call.ret) = 30
               /\ _get_segment_adjustment(call.ret)
                      # _get_segment_adjustment("normal_user")
\* C26: a profile that is neither power_user nor new_user is classified
\* suspicious_user exactly when its 30-day violations exceed 5 or its 7-day
\* daily rate (7-day count / 7) exceeds 4 times its 30-day average daily
\* rate (30-day count / 30); in integers, 30 x 7-day > 28 x 30-day
C26_SuspiciousBySpike ==
    (/\ call.op \in {"classify_user", "update_user_profile"}
     /\ ~Meets("power_user", call.args)
     /\ ~Meets("new_user", call.args)) =>
        (call.ret = "suspicious_user" <=>
            \/ call.args.violation_count_30d > 5
            \/ 30 * call.args.event_count_7d
                   > 28 * call.args.event_count_30d)
\* the requirement the claim names for each action, read off the
\* regulation's table
RequirementBroken(action, regulation, details) ==
    LET req == REGULATION_REQUIREMENTS[regulation]
        days(k) == IF k \in DOMAIN details THEN details[k] ELSE 0
        has(k) == k \in DOMAIN details /\ details[k]
    IN CASE action = "data_access" ->
                req.right_to_access /\ days("access_time_days") > 30
         [] action = "data_deletion" ->
                req.right_to_deletion /\ days("deletion_time_days") > 30
         [] action = "consent" ->
                req.consent_required /\ ~has("has_explicit_consent")
         [] action = "breach_notification" ->
                days("notification_time_days") > req.breach_notification_days
         [] action = "data_retention" ->
                days("retention_years") > req.max_retention_years
         [] action = "dpia" -> req.dpia_required /\ ~has("has_dpia")
         [] OTHER -> FALSE

EvaluatedActions ==
    {"data_access", "data_deletion", "consent", "breach_notification",
     "data_retention", "dpia"}

\* C27: check_violation reports a violation exactly when the details break
\* the regulation's requirement for the action, and every event type of
\* the orchestrator's lookup, data_export included, maps to an action that
\* check_violation evaluates
C27_ViolationIffRequirementBroken ==
    /\ call.op = "check_violation" =>
           (call.ret.violation <=>
               RequirementBroken(call.args.action, call.args.regulation,
                                 call.args.details))
    /\ (/\ call.op = "_map_event_to_action"
        /\ call.args.event_type \in DOMAIN event_action_mapping) =>
           call.ret \in EvaluatedActions

\* the first half of C27 on its own: the verdict of check_violation
C27_VerdictOnly ==
    call.op = "check_violation" =>
        (call.ret.violation <=>
            RequirementBroken(call.args.action, call.args.regulation,
                              call.args.details))
\* C28: after any sequence of lookups the geo cache holds at most
\* max_cache_size entries, and when a new address is cached at capacity the
\* entry that goes is the one inserted earliest: the others stay, in their
\* order, and the new address comes last
C28_CacheBoundedOldestEvicted ==
    /\ [](Len(ip_cache) <= max_cache_size)
    /\ [][(/\ call'.op = "validate_ip_region_consistency"
           /\ call'.consulted
           /\ Len(ip_cache) = max_cache_size)
          => /\ ~CacheHas(ip_cache', ip_cache[1].ip)
             /\ Len(ip_cache') = max_cache_size
             /\ \A i \in 2..Len(ip_cache) : ip_cache'[i - 1] = ip_cache[i]
             /\ ip_cache'[Len(ip_cache')] =
                    [ip |-> call'.args.ip_address,
                     data |-> call'.looked_up]]_vars

\* a lookup made with the cache full: its address is the newest entry
C28_Witness ==
    /\ call.op = "validate_ip_region_consistency"
    /\ call.consulted
    /\ call.cached_before = max_cache_size
    /\ Len(ip_cache) = max_cache_size
    /\ ip_cache[Len(ip_cache)].ip = call.args.ip_address
\* C29: for an event with an address, a region and a user, section 1 of
\* evaluate_compliance calls detect_impossible_travel with the user's
\* previous location and the event time, so the call is made and does not
\* raise, and an impossible movement adds the flag
\* impossible_travel_detected with exactly 3 to the score
C29_TravelCheckedAgainstHistory ==
    (/\ Past("geoip")
     /\ Truthy(ip_address_of(event)) /\ Truthy(region_of(event))
     /\ Truthy(user_id_of(event))) =>
        /\ ~stage_log["geoip"].raised
        /\ HasFlag("impossible_travel_detected") =>
               stage_log["geoip"].delta >= 3000
\* C30: every ensemble_anomaly_detection call appends exactly one feature
\* vector, the event's, to the anomaly history, whether or not a detector
\* failed or flagged; the history never holds more than max_history
\* vectors, keeps arrival order, and loses its oldest vector when full
C30_OneVectorPerCallOldestDropped ==
    /\ [](Len(feature_history) <= max_history)
    /\ [][call'.op = "ensemble_anomaly_detection" =>
            LET new == FeaturesOfEventFeatures(call'.args.is_eu,
                                               call'.args.has_consent)
            IN IF Len(feature_history) < max_history
               THEN feature_history' = Append(feature_history, new)
               ELSE feature_history' = Append(Tail(feature_history), new)]_vars

\* three calls on a history of 20 rows: the first row is gone and the row
\* that was second is now the oldest, after a call whose forest failed
C30_Witness ==
    /\ call.op = "ensemble_anomaly_detection"
    /\ call.made = 3
    /\ Len(feature_history) = max_history
    /\ feature_history[1] = FeatB
    /\ call.detectors.isolation_forest = <<FALSE, 0>>
\* a call made with no fitted forest and fewer rows than the local outlier
\* factor needs
ColdStart ==
    /\ call.op = "ensemble_anomaly_detection"
    /\ ~call.fitted_before
    /\ call.history_before < n_neighbors + 1

ReportedRetrained ==
    CASE call.op = "retrain_models" -> call.ret
      [] call.op = "_retrain_anomaly_detector" ->
             call.ret.successful_retrainings > 0
      [] call.op = "trigger_immediate_retraining" -> call.ret.success

RetrainingCall ==
    \/ call.op \in {"retrain_models", "_retrain_anomaly_detector"}
    \/ /\ call.op = "trigger_immediate_retraining"
       /\ call.args.model_name = "anomaly_detector"

\* C32: retraining, started by the scheduler or on demand, refits the
\* forest on the full current history whenever the history holds at least
\* 100 vectors or force is set; otherwise it leaves the fitted model as it
\* was and reports that nothing was retrained
C32_RetrainAtHundredOrForced ==
    RetrainingCall =>
        IF Len(feature_history) >= 100 \/ call.args.force
        THEN forest_fit = [object |-> "fitted", rows |-> feature_history]
        ELSE /\ ForestBefore = call.before
             /\ ~ReportedRetrained

\* C32 for retrain_models alone and histories that are not empty
C32_RetrainModelsOnly ==
    call.op = "retrain_models" /\ feature_history # <<>> =>
        IF Len(feature_history) >= 100 \/ call.args.force
        THEN /\ forest_fit = [object |-> "fitted", rows |-> feature_history]
             /\ call.ret
        ELSE /\ ForestBefore = call.before
             /\ ~call.ret

\* C33: while retrain_models runs on a thread beside the evaluations, every
\* evaluation finds either the forest that was there before or the newly
\* fitted one, never a forest object that is installed and not yet fitted
C33_NeverSeesUnfittedForest ==
    call.op = "ensemble_anomaly_detection" => call.forest_seen # "new"

\* the rings detect_fraud_rings(m) would report for the maps as they are
\* now that hold the user
RingsNowWith(user_id, m) ==
    LET rings == detect_fraud_rings(device_connections, ip_connections,
                                    payment_connections, m)
    IN {i \in 1..Len(rings) : user_id \in rings[i].users}

\* C34: get_user_network_risk(user) adds 0.8 and the factor
\* member_of_fraud_ring exactly when the user is in a ring that exists in
\* the graph at the time of the call, one detect_fraud_rings would report
\* for the graph as it is now
C34_RingMembershipIsCurrent ==
    call.op = "get_user_network_risk" =>
        LET user_id == call.args.user_id
            flagged == \E i \in 1..Len(call.ret.risk_factors) :
                           call.ret.risk_factors[i] = "member_of_fraud_ring"
        IN /\ flagged => \E m \in MinRingSizes : RingsNowWith(user_id, m) # {}
           /\ RingsNowWith(user_id, default_min_ring_size) # {} => flagged
           /\ flagged => call.ret.risk_score >= 800

\* do two users share a device or an address, as the sharing maps have it
SharesConnector(u, v) ==
    \/ \E id \in DOMAIN device_connections : {u, v} \subseteq device_connections[id]
    \/ \E id \in DOMAIN ip_connections : {u, v} \subseteq ip_connections[id]

\* C35: get_user_network_risk returns a score in [0, 1.0] and at most 10
\* connected suspicious users, none of them the queried user and each
\* sharing a device or an address with it; for a user not in the graph it
\* returns score 0 and empty lists
C35_RiskBoundedConnectedAreOthers ==
    call.op = "get_user_network_risk" =>
        LET user_id   == call.args.user_id
            connected == call.ret.connected_suspicious_users
        IN /\ call.ret.risk_score >= 0 /\ call.ret.risk_score <= 1000
           /\ Cardinality(connected) <= 10
           /\ user_id \notin connected
           /\ \A v \in connected : SharesConnector(user_id, v)
           /\ UserNode(user_id) \notin graph.nodes =>
                 /\ call.ret.risk_score = 0
                 /\ call.ret.risk_factors = <<>>
                 /\ connected = {}

\* the last n elements of a sequence
LastOf(q, n) == IF Len(q) <= n THEN q ELSE SubSeq(q, Len(q) - n + 1, Len(q))

WorkersIdle == \A w \in Workers : WorkerPc(w) = "idle"

\* C36: with evaluations running on several threads the shared structures
\* keep their sequential guarantees under every interleaving: once all
\* evaluations have finished the history holds one vector per scored event,
\* the newest max_history of them, and the geo cache never holds more than
\* max_cache_size entries
C36_NothingLostCacheBounded ==
    /\ Len(ip_cache) <= max_cache_size
    /\ WorkersIdle =>
          feature_history = LastOf(HistoryAtStart \o Scored, max_history)

\* the sharing map of each kind of connector
SharingMaps ==
    [device |-> device_connections, ip |-> ip_connections,
     payment |-> payment_connections]

\* a user is in the sharing set of a connector exactly when the graph has
\* the edge between the two
GraphMatchesSharing ==
    \A kind \in DOMAIN SharingMaps :
        \A id \in DOMAIN SharingMaps[kind] \cup IdsSeen(kind) :
            \A i \in 1..Len(NetUsers) :
                NetUsers[i] \in DictGet(SharingMaps[kind], id, {})
                    <=> {UserNode(NetUsers[i]), <<kind, id>>} \in graph.edges

\* C37: the graph only grows and stays consistent with the sharing maps:
\* over add_user_event, detect_fraud_rings and clear_old_connections no
\* node or edge is removed, a user is in the sharing set of a device,
\* address or payment instrument exactly when the graph has the edge
\* between the user and that connector, and an add_user_event repeated
\* with the same arguments changes nothing
C37_GraphGrowsAndMatchesSharing ==
    /\ []GraphMatchesSharing
    /\ [][/\ graph.nodes \subseteq graph'.nodes
          /\ graph.edges \subseteq graph'.edges
          /\ \A kind \in DOMAIN SharingMaps :
                \A id \in DOMAIN SharingMaps[kind] :
                    /\ id \in DOMAIN SharingMaps[kind]'
                    /\ SharingMaps[kind][id] \subseteq SharingMaps[kind]'[id]
          /\ call'.op = "add_user_event" /\ call'.repeated
                => UNCHANGED network_vars]_vars

\* an event repeated once two users share a connector and rings are stored
C37_Witness ==
    /\ call.op = "add_user_event" /\ call.repeated
    /\ \E id \in DOMAIN device_connections :
          Cardinality(device_connections[id]) >= 2
    /\ fraud_rings # <<>>

\* recovery up to the failure in HALF_OPEN: the state is one of the
\* three; an OPEN breaker whose recovery_timeout has elapsed moves to
\* HALF_OPEN on can_attempt and allows the attempt; the success that brings
\* the successes counted in HALF_OPEN to success_threshold closes the
\* breaker with both counters 0
BreakerRecovers ==
    /\ breaker.state \in {"CLOSED", "OPEN", "HALF_OPEN"}
    /\ call.op = "can_attempt" /\ call.before.state = "OPEN"
       /\ call.at - call.before.last_failure_time[1]
              >= call.before.recovery_timeout
       => call.ret /\ breaker.state = "HALF_OPEN"
    /\ call.op = "can_attempt" /\ call.before.state = "HALF_OPEN"
       => call.ret /\ breaker.state = "HALF_OPEN"
    /\ call.op = "record_success" /\ call.before.state = "HALF_OPEN"
       => IF call.before.successes + 1 >= breaker.success_threshold
          THEN /\ breaker.state = "CLOSED"
               /\ breaker.failures = 0 /\ breaker.successes = 0
          ELSE /\ breaker.state = "HALF_OPEN"
               /\ breaker.successes = call.before.successes + 1
    /\ breaker.state = "HALF_OPEN"
       => breaker.successes < breaker.success_threshold

\* C38: CircuitBreaker recovery: after recovery_timeout an OPEN breaker
\* moves to HALF_OPEN on the next can_attempt and allows the attempt; in
\* HALF_OPEN success_threshold recorded successes close it with both
\* counters reset to 0, and a recorded failure sends it back to OPEN; the
\* state is always one of CLOSED, OPEN, HALF_OPEN
C38_BreakerRecovery ==
    /\ BreakerRecovers
    /\ call.op = "record_failure" /\ call.before.state = "HALF_OPEN"
       => breaker.state = "OPEN"
====
